---------------------------- MODULE Spec2Model ----------------------------
(***************************************************************************)
(* WarPie: the exclusion rule engine and the Filter Remover                *)
(* (bin/warpie-filter-processor.py, bin/warpie-filter-manager.py).         *)
(*                                                                         *)
(* Text is a sequence of one-character strings.  A CSV line is the tuple   *)
(* of its ','-separated fields, which is what str.split returns for it; a  *)
(* rule-file line is text, '|' characters included, and is split where it  *)
(* is read.                                                                *)
(***************************************************************************)
EXTENDS Integers, Sequences, FiniteSets, TLC

VARIABLES
    mName, mRule, mResult, mPc,       \* one call of matches_pattern
    pFile, pFile0, pRules, pEnv,      \* one target file, the rules given, the environment
    pScan, pRun, pPc,                 \* what the scan and the mutating run returned
    ruleFile,                         \* the lines of filter_rules.conf
    files,                            \* the capture directory: path -> content and age
    backups,                          \* the files under the backup directory
    iu,                               \* the interactive pre-upload workflow
    file_mtimes,                      \* FilterDaemon.file_mtimes
    last,                             \* the process_* calls the step just taken made
    kismetConf,                       \* the lines the manager wrote to the Kismet configs
    cArgs, cResult, cPc               \* one call of a function on its own: arguments, result

matchVars == <<mName, mRule, mResult, mPc>>
procVars == <<pFile, pFile0, pRules, pEnv, pScan, pRun, pPc>>
sysVars == <<ruleFile, files, backups, iu, file_mtimes, last, kismetConf>>
callVars == <<cArgs, cResult, cPc>>
vars == <<matchVars, procVars, sysVars, callVars>>

(***************************************************************************)
(* Bounds of the model.                                                    *)
(***************************************************************************)
MaxNameLen == 2
MaxPatLen == 3
MaxDevices == 2
MaxCsvRows == 2

NameChars == {"a", "A"}
PatChars == NameChars \cup {"*", "?", "[", "]"}

RECURSIVE TextsUpTo(_, _)
TextsUpTo(chars, n) ==
    IF n = 0 THEN {<<>>}
    ELSE LET shorter == TextsUpTo(chars, n - 1)
         IN  shorter \cup {Append(t, c) : t \in shorter, c \in chars}

Names == TextsUpTo(NameChars, MaxNameLen)
Patterns == TextsUpTo(PatChars, MaxPatLen)
MatchTypes == {"exact", "pattern", "bssid", "unknown"}

\* Rules as FilterRule(value, match_type, description).
FilterRule(v, t, d) == [value |-> v, match_type |-> t, description |-> d]

(***************************************************************************)
(* fnmatch.fnmatch(name, pat): both arguments go through os.path.normcase, *)
(* which on POSIX returns its argument unchanged, and the pattern is       *)
(* translated: '*' any run, '?' any one character, '[seq]' one character   *)
(* of seq, a '[' with no closing ']' is a literal.                         *)
(***************************************************************************)
normcase(s) == s

\* fnmatch.translate's scan for the ']' that closes the class opened at pat[i]:
\* a ']' right after the '[' belongs to the class.  0 when the class never closes.
RECURSIVE ScanClose(_, _)
ScanClose(pat, j) ==
    IF j > Len(pat) THEN 0
    ELSE IF pat[j] = "]" THEN j
    ELSE ScanClose(pat, j + 1)

ClassEnd(pat, i) ==
    LET j == IF i + 1 <= Len(pat) /\ pat[i + 1] = "]" THEN i + 2 ELSE i + 1
    IN  ScanClose(pat, j)

RECURSIVE fnmatchcase_at(_, _, _, _)
fnmatchcase_at(name, pat, i, j) ==
    IF j > Len(pat) THEN i > Len(name)
    ELSE IF pat[j] = "*" THEN
        \/ fnmatchcase_at(name, pat, i, j + 1)
        \/ (i <= Len(name) /\ fnmatchcase_at(name, pat, i + 1, j))
    ELSE IF pat[j] = "?" THEN
        i <= Len(name) /\ fnmatchcase_at(name, pat, i + 1, j + 1)
    ELSE IF pat[j] = "[" /\ ClassEnd(pat, j) # 0 THEN
        LET k == ClassEnd(pat, j)
        IN  /\ i <= Len(name)
            /\ \E m \in (j + 1)..(k - 1) : pat[m] = name[i]
            /\ fnmatchcase_at(name, pat, i + 1, k + 1)
    ELSE
        i <= Len(name) /\ name[i] = pat[j] /\ fnmatchcase_at(name, pat, i + 1, j + 1)

fnmatch(name, pat) == fnmatchcase_at(normcase(name), normcase(pat), 1, 1)

matches_pattern(ssid, rule) ==
    IF rule.match_type = "exact" THEN ssid = rule.value
    ELSE IF rule.match_type = "pattern" THEN fnmatch(ssid, rule.value)
    ELSE IF rule.match_type = "bssid" THEN FALSE
    ELSE FALSE

\* The first rule of the list that matches, as the index of the rule; 0 for None.
RECURSIVE find_matching_from(_, _, _)
find_matching_from(ssid, rules, i) ==
    IF i > Len(rules) THEN 0
    ELSE IF matches_pattern(ssid, rules[i]) THEN i
    ELSE find_matching_from(ssid, rules, i + 1)

\* A search that goes through the list from its end.
RECURSIVE find_matching_back(_, _, _)
find_matching_back(ssid, rules, i) ==
    IF i = 0 THEN 0
    ELSE IF matches_pattern(ssid, rules[i]) THEN i
    ELSE find_matching_back(ssid, rules, i - 1)

find_matching_rule_last(ssid, rules) == find_matching_back(ssid, rules, Len(rules))

find_matching_rule(ssid, rules) == find_matching_from(ssid, rules, 1)

(***************************************************************************)
(* kismetdb device blobs.  The JSON text of devices.device is kept as what *)
(* json.loads makes of it: "obj" an object whose dot11.device holds the two *)
(* ssid maps (lists of entries), "badjson" text that is not JSON, "nonobj"  *)
(* JSON that is not an object.  An entry is a dict with an ssid or not a    *)
(* dict at all.                                                            *)
(***************************************************************************)
Entry(n) == [dict |-> TRUE, ssid |-> n]
NonDictEntry == [dict |-> FALSE, ssid |-> <<>>]
\* kind: "obj", "badjson", "nonobj", or "absent" for a NULL or empty column.
\* dot11 is what "dot11.device" holds: "map", "list" or "missing"; shape is
\* the JSON type of the advertised map: "list", "dict" (adv then holds its
\* values in order) or "number"; signal is what "kismet.device.base.signal"
\* holds: "map", "list" or "missing"; commonname is the device's common name.
DeviceBlob(kind, dot11, shape, adv, probed, signal, commonname) ==
    [kind |-> kind, dot11 |-> dot11, shape |-> shape, adv |-> adv, probed |-> probed,
     signal |-> signal, commonname |-> commonname]
ObjBlob(adv, probed) == DeviceBlob("obj", "map", "list", adv, probed, "map", <<>>)
BadJsonBlob == DeviceBlob("badjson", "missing", "list", <<>>, <<>>, "missing", <<>>)
NonObjBlob == DeviceBlob("nonobj", "missing", "list", <<>>, <<>>, "missing", <<>>)
AbsentBlob == DeviceBlob("absent", "missing", "list", <<>>, <<>>, "missing", <<>>)

InSeq(x, s) == \E k \in 1..Len(s) : s[k] = x
SeqToSet(s) == {s[k] : k \in 1..Len(s)}

RECURSIVE collect_advertised(_, _, _)
collect_advertised(map, i, ssids) ==
    IF i > Len(map) THEN ssids
    ELSE collect_advertised(map, i + 1,
            IF map[i].dict /\ map[i].ssid # <<>>
            THEN Append(ssids, map[i].ssid) ELSE ssids)

RECURSIVE collect_probed(_, _, _)
collect_probed(map, i, ssids) ==
    IF i > Len(map) THEN ssids
    ELSE collect_probed(map, i + 1,
            IF map[i].dict /\ map[i].ssid # <<>> /\ ~InSeq(map[i].ssid, ssids)
            THEN Append(ssids, map[i].ssid) ELSE ssids)

\* for ssid_entry in ssid_map: a list gives its entries, a dict its keys,
\* which are strings and no dicts.
iterated(blob) ==
    IF blob.shape = "dict" THEN [k \in DOMAIN blob.adv |-> NonDictEntry] ELSE blob.adv

\* raised: the AttributeError of .get on JSON that is not an object, or on a
\* "dot11.device" that is not one, which the except clause (JSONDecodeError,
\* TypeError, KeyError) does not catch. A map that is a number cannot be
\* iterated: the TypeError is caught and nothing is returned.
extract_ssids_from_device(blob) ==
    [raised |-> blob.kind = "nonobj" \/ (blob.kind = "obj" /\ blob.dot11 = "list"),
     ssids  |-> IF blob.kind = "obj" /\ blob.dot11 = "map" /\ blob.shape # "number"
                THEN collect_probed(blob.probed, 1, collect_advertised(iterated(blob), 1, <<>>))
                ELSE <<>>]

(***************************************************************************)
(* process_kismetdb.  A database is its devices, packets and datasources   *)
(* rows; hasDatasources tells whether the datasources table exists.  env   *)
(* is what the environment does to the run: "ok", or the statement at      *)
(* which sqlite3 raises an error (a read-only or corrupt file, a full      *)
(* disk).  "operr_datasources" is an sqlite3.OperationalError at the       *)
(* DELETE on an existing datasources table (no such column, no such        *)
(* function json_extract, disk I/O error); "err_datasources" is any other  *)
(* sqlite3.Error there.  For a CSV file "err_write" is open(path, "w")     *)
(* failing and "err_truncate" is the write failing after open truncated    *)
(* the file.                                                               *)
(***************************************************************************)
WIFI == "IEEE802.11"

DbEnvs == {"ok", "err_select", "err_delete_devices", "err_delete_packets",
           "operr_datasources", "err_datasources", "err_commit"}
CsvEnvs == {"ok", "err_read", "err_write", "err_truncate"}

ProcessingResult(path) ==
    [file_path |-> path, original_count |-> 0, removed_count |-> 0,
     matches |-> <<>>, success |-> TRUE, error |-> ""]

\* for ssid in ssids: the first ssid some rule matches, as an index; 0 when none.
RECURSIVE first_matching_ssid(_, _, _)
first_matching_ssid(ssids, rules, i) ==
    IF i > Len(ssids) THEN 0
    ELSE IF find_matching_rule(ssids[i], rules) # 0 THEN i
    ELSE first_matching_ssid(ssids, rules, i + 1)

\* result.matches.append({...}) with keys_to_remove and macs_to_remove.
add_match(acc, row, ssid, rule) ==
    [acc EXCEPT !.result.matches = Append(@, [ssid |-> ssid, mac |-> row.devmac,
                                               rule |-> rule.value,
                                               rule_type |-> rule.match_type]),
                !.keys = Append(@, row.key),
                !.macs = Append(@, row.devmac)]

\* for ssid in ssids: ... break, s being the first ssid a rule matches.
scan_ssids(acc, row, rules, ssids, s) ==
    IF s = 0 THEN acc
    ELSE add_match(acc, row, ssids[s], rules[find_matching_rule(ssids[s], rules)])

\* One row of the loop: x is what extract_ssids_from_device made of its blob.
scan_device(acc, row, rules, x) ==
    IF x.raised THEN [acc EXCEPT !.result.original_count = @ + 1, !.raised = TRUE]
    ELSE scan_ssids([acc EXCEPT !.result.original_count = @ + 1], row, rules, x.ssids,
                    first_matching_ssid(x.ssids, rules, 1))

\* The loop over cursor.fetchall(): acc holds result, keys_to_remove,
\* macs_to_remove and whether extract_ssids_from_device raised.
RECURSIVE scan_devices(_, _, _, _)
scan_devices(rows, rules, i, acc) ==
    IF i > Len(rows) \/ acc.raised THEN acc
    ELSE scan_devices(rows, rules, i + 1,
            scan_device(acc, rows[i], rules, extract_ssids_from_device(rows[i].device)))

\* A DELETE that stops after the first key.
DeleteDevicesFirstKey(db, keys) ==
    [db EXCEPT !.devices = SelectSeq(@, LAMBDA d : keys = <<>> \/ d.key # keys[1])]

DeleteDevices(db, keys) ==
    [db EXCEPT !.devices = SelectSeq(@, LAMBDA d : d.key \notin SeqToSet(keys))]

\* A DELETE that looks at the source address only.
DeletePacketsBySource(db, macs) ==
    [db EXCEPT !.packets = SelectSeq(@, LAMBDA p : p.sourcemac \notin SeqToSet(macs))]

DeletePackets(db, macs) ==
    [db EXCEPT !.packets = SelectSeq(@, LAMBDA p :
        p.sourcemac \notin SeqToSet(macs) /\ p.destmac \notin SeqToSet(macs))]

\* The DELETE on a missing datasources table raises sqlite3.OperationalError,
\* which the inner except passes over, as it does any other OperationalError.
DeleteDatasources(db, macs, env) ==
    IF db.hasDatasources /\ env # "operr_datasources"
    THEN [db EXCEPT !.datasources = SelectSeq(@, LAMBDA m : m \notin SeqToSet(macs))]
    ELSE db

\* Lines 409-437: the three DELETE loops and the one commit.  An error at any
\* of them leaves the connection uncommitted, and the rows as they were.
StagedDeletes(db, keys, macs, env) ==
    IF env \in {"err_delete_devices", "err_delete_packets", "err_datasources", "err_commit"}
    THEN [db |-> db, failed |-> TRUE]
    ELSE [db |-> DeleteDatasources(DeletePackets(DeleteDevices(db, keys), macs), macs, env),
          failed |-> FALSE]

\* if not dry_run and keys_to_remove
db_should_delete(dry_run, keys_to_remove) == ~dry_run /\ keys_to_remove # <<>>

\* The end of the call once the deletes ran: d is what StagedDeletes left.
after_deletes(db, counted, d) ==
    IF d.failed THEN
        [content |-> d.db, raised |-> FALSE, wrote |-> d.db # db,
         result |-> [counted EXCEPT !.success = FALSE, !.error = "Database error"]]
    ELSE [content |-> d.db, raised |-> FALSE, wrote |-> TRUE, result |-> counted]

\* Lines 407-447, acc being what the loop over the devices found.
after_scan(db, dry_run, env, acc) ==
    IF acc.raised THEN
        [content |-> db, raised |-> TRUE, wrote |-> FALSE, result |-> acc.result]
    ELSE IF db_should_delete(dry_run, acc.keys) THEN
        after_deletes(db, [acc.result EXCEPT !.removed_count = Len(acc.keys)],
                      StagedDeletes(db, acc.keys, acc.macs, env))
    ELSE [content |-> db, raised |-> FALSE, wrote |-> FALSE,
          result |-> [acc.result EXCEPT !.removed_count = Len(acc.keys)]]

\* Returns the rows after the call, the ProcessingResult, whether the call
\* raised instead of returning, and whether it committed a write.
process_kismetdb(path, exists, db, rules, dry_run, env) ==
    IF ~exists THEN
        [content |-> db, raised |-> FALSE, wrote |-> FALSE,
         result |-> [ProcessingResult(path) EXCEPT !.success = FALSE,
                                                   !.error = "File not found"]]
    ELSE IF env = "err_select" THEN
        [content |-> db, raised |-> FALSE, wrote |-> FALSE,
         result |-> [ProcessingResult(path) EXCEPT !.success = FALSE,
                                                   !.error = "Database error"]]
    ELSE after_scan(db, dry_run, env,
            scan_devices(SelectSeq(db.devices, LAMBDA d : d.phyname = WIFI), rules, 1,
                [result |-> ProcessingResult(path), keys |-> <<>>, macs |-> <<>>,
                 raised |-> FALSE]))

\* A scan that forgets dry_run=True.
scan_kismetdb_not_dry(path, exists, db, rules, env) ==
    process_kismetdb(path, exists, db, rules, FALSE, env)

scan_kismetdb(path, exists, db, rules, env) ==
    process_kismetdb(path, exists, db, rules, TRUE, env)

(***************************************************************************)
(* process_wigle_csv.  The file is its lines, a line the tuple of its      *)
(* comma-separated parts; the last part of a line ends with the newline.   *)
(***************************************************************************)
WIGLE_MAC_COL == 0
WIGLE_SSID_COL == 1

\* open(csv_path, encoding="utf-8", errors="replace") with universal newlines:
\* a byte sequence that is not UTF-8 reads as U+FFFD and "\r\n" as "\n".
CRLF == "\r\n"
BadByte == "\\xff"
Replacement == "U+FFFD"

decode(c) == IF c = CRLF THEN "\n" ELSE IF c = BadByte THEN Replacement ELSE c

\* f.readlines(): the lines of the file as text, each kept as its ','-parts.
readlines(content) ==
    [i \in DOMAIN content |->
        [j \in DOMAIN content[i] |->
            [k \in DOMAIN content[i][j] |-> decode(content[i][j][k])]]]

\* One data line: r is the rule find_matching_rule found for its ssid, 0 for None.
filter_line(acc, parts, rules, r) ==
    IF r # 0 THEN
        [acc EXCEPT !.matches = Append(@,
            [ssid |-> parts[WIGLE_SSID_COL + 1], mac |-> parts[WIGLE_MAC_COL + 1],
             rule |-> rules[r].value, rule_type |-> rules[r].match_type])]
    ELSE [acc EXCEPT !.filtered = Append(@, parts)]

RECURSIVE filter_lines(_, _, _, _)
filter_lines(data_lines, rules, i, acc) ==
    IF i > Len(data_lines) THEN acc
    ELSE IF Len(data_lines[i]) > WIGLE_SSID_COL THEN
        filter_lines(data_lines, rules, i + 1,
            filter_line(acc, data_lines[i], rules,
                        find_matching_rule(data_lines[i][WIGLE_SSID_COL + 1], rules)))
    ELSE filter_lines(data_lines, rules, i + 1,
            [acc EXCEPT !.filtered = Append(@, data_lines[i])])

\* A rewrite that does not look at removed_count.
csv_should_write_always(dry_run, removed_count) == ~dry_run

\* if not dry_run and result.removed_count > 0
csv_should_write(dry_run, removed_count) == ~dry_run /\ removed_count > 0

\* Lines 521-527: the rewrite, counted being the result of the filtering.
after_filter(lines, header, dry_run, env, filtered, counted) ==
    IF csv_should_write(dry_run, counted.removed_count) THEN
        IF env = "err_write" THEN
            [content |-> lines, raised |-> FALSE, wrote |-> FALSE,
             result |-> [counted EXCEPT !.success = FALSE, !.error = "File error"]]
        ELSE IF env = "err_truncate" THEN
            [content |-> <<>>, raised |-> FALSE, wrote |-> TRUE,
             result |-> [counted EXCEPT !.success = FALSE, !.error = "File error"]]
        ELSE [content |-> header \o filtered, raised |-> FALSE, wrote |-> TRUE,
              result |-> counted]
    ELSE [content |-> lines, raised |-> FALSE, wrote |-> FALSE, result |-> counted]

\* Lines 502-521, acc being what the loop over the data lines made.
count_filtered(path, lines, header, dry_run, env, acc) ==
    after_filter(lines, header, dry_run, env, acc.filtered,
        [ProcessingResult(path) EXCEPT !.original_count = Len(lines) - 2,
                                       !.matches = acc.matches,
                                       !.removed_count = Len(lines) - 2 - Len(acc.filtered)])

\* Lines 498-519, text being the lines read.
filter_text(path, lines, text, rules, dry_run, env) ==
    count_filtered(path, lines, SubSeq(text, 1, 2), dry_run, env,
        filter_lines(SubSeq(text, 3, Len(text)), rules, 1,
                     [matches |-> <<>>, filtered |-> <<>>]))

process_wigle_csv(path, exists, lines, rules, dry_run, env) ==
    IF ~exists THEN
        [content |-> lines, raised |-> FALSE, wrote |-> FALSE,
         result |-> [ProcessingResult(path) EXCEPT !.success = FALSE,
                                                   !.error = "File not found"]]
    ELSE IF env = "err_read" THEN
        [content |-> lines, raised |-> FALSE, wrote |-> FALSE,
         result |-> [ProcessingResult(path) EXCEPT !.success = FALSE, !.error = "File error"]]
    ELSE IF Len(lines) < 2 THEN
        [content |-> lines, raised |-> FALSE, wrote |-> FALSE,
         result |-> [ProcessingResult(path) EXCEPT
                        !.error = "File too short (missing header)"]]
    ELSE filter_text(path, lines, readlines(lines), rules, dry_run, env)

scan_wigle_csv(path, exists, lines, rules, env) ==
    process_wigle_csv(path, exists, lines, rules, TRUE, env)

(***************************************************************************)
(* The matcher on its own: one call of matches_pattern on drawn inputs.    *)
(***************************************************************************)
NoAnswer == [kind |-> "none", text |-> <<>>]
IuIdle == [pc |-> "idle", all_rules |-> <<>>, dyn |-> <<>>, preview |-> <<>>,
           backup_path |-> "", answer |-> NoAnswer, steps |-> <<>>,
           modified |-> FALSE, backed |-> FALSE]

SysIdle ==
    /\ ruleFile = <<>> /\ files = <<>> /\ backups = {} /\ iu = IuIdle
    /\ file_mtimes = {} /\ last = {} /\ kismetConf = <<>>

NoOut == [content |-> <<>>, raised |-> FALSE, wrote |-> FALSE,
          result |-> ProcessingResult("")]
NoFile == [kind |-> "none", exists |-> FALSE, content |-> <<>>]

ProcIdle ==
    /\ pFile = NoFile /\ pFile0 = NoFile /\ pRules = <<>> /\ pEnv = "ok"
    /\ pScan = NoOut /\ pRun = NoOut /\ pPc = "off"

\* No call is under way.
CallIdle == cArgs = <<>> /\ cResult = <<>> /\ cPc = "off"

MatchIdle ==
    /\ mName = <<>> /\ mRule = FilterRule(<<>>, "exact", "") /\ mResult = FALSE /\ mPc = "off"

InitMatch ==
    /\ ProcIdle
    /\ SysIdle
    /\ CallIdle
    /\ mName \in Names
    /\ mRule \in {FilterRule(v, t, "") : v \in Patterns, t \in MatchTypes}
    /\ mResult = FALSE
    /\ mPc = "call"

MatchCall ==
    /\ mPc = "call"
    /\ mResult' = matches_pattern(mName, mRule)
    /\ mPc' = "done"
    /\ UNCHANGED <<mName, mRule, procVars, sysVars, callVars>>

NextMatch == MatchCall

SpecMatch == InitMatch /\ [][NextMatch]_vars

(***************************************************************************)
(* One target file under the Filter Remover: a scan (dry_run=True) and a   *)
(* mutating run (dry_run=False) of process_kismetdb or process_wigle_csv   *)
(* on a drawn file, rule list and environment.                             *)
(***************************************************************************)
NameA == <<"a">>
NameB == <<"b">>

AdvLists == {<<>>, <<Entry(NameA)>>, <<Entry(<<>>)>>, <<NonDictEntry, Entry(NameB)>>,
             <<Entry(NameB), Entry(NameA)>>}
WifiBlobs ==
    {ObjBlob(a, <<>>) : a \in AdvLists}
    \cup {ObjBlob(<<>>, <<Entry(NameA)>>), ObjBlob(<<Entry(NameA)>>, <<Entry(NameA)>>)}
    \cup {BadJsonBlob, NonObjBlob}

Mac(i) == <<"M", ToString(i)>>
OtherMac == <<"M", "0">>

\* The rows a devices slot can hold: a WiFi device with any blob, or a BTLE device.
DeviceRows(i) ==
    {[key |-> i, devmac |-> Mac(i), phyname |-> WIFI, device |-> b] : b \in WifiBlobs}
    \cup {[key |-> i, devmac |-> Mac(i), phyname |-> "BTLE",
           device |-> ObjBlob(<<Entry(NameA)>>, <<>>)]}

RECURSIVE DeviceTables(_)
DeviceTables(n) ==
    IF n = 0 THEN {<<>>}
    ELSE LET shorter == DeviceTables(n - 1)
         IN  shorter \cup {Append(t, r) : t \in {u \in shorter : Len(u) = n - 1},
                                          r \in DeviceRows(n)}

\* Packets to, from and between the first two devices and a third party.
PacketRows ==
    << [sourcemac |-> Mac(1), destmac |-> OtherMac],
       [sourcemac |-> OtherMac, destmac |-> Mac(2)],
       [sourcemac |-> OtherMac, destmac |-> OtherMac] >>

Databases ==
    {[devices |-> d, packets |-> PacketRows, datasources |-> <<Mac(1), OtherMac>>,
      hasDatasources |-> h] : d \in DeviceTables(MaxDevices), h \in BOOLEAN}

NL == "\n"
Header == << <<<<"WigleWifi-1.4", NL>>>>, <<<<"MAC">>, <<"SSID", NL>>>> >>

HeaderCRLF == << <<<<"WigleWifi-1.4", CRLF>>>>, <<<<"MAC">>, <<"SSID", CRLF>>>> >>

CsvNames == {NameA, NameB, <<>>}
\* Data lines of one, two and three parts; a line that ends in "\r\n" and a
\* line whose name is a byte that is not UTF-8.
CsvLines ==
    {<< <<"junk", NL>> >>}
    \cup {<< Mac(1), Append(n, NL) >> : n \in {NameA, NameB}}
    \cup {<< Mac(1), n, <<"WPA2", NL>> >> : n \in CsvNames}
    \cup {<< Mac(1), NameB, <<"WPA2", CRLF>> >>, << Mac(1), <<BadByte>>, <<"WPA2", NL>> >>}

RECURSIVE LineLists(_)
LineLists(n) ==
    IF n = 0 THEN {<<>>}
    ELSE LET shorter == LineLists(n - 1)
         IN  shorter \cup {Append(t, l) : t \in shorter, l \in CsvLines}

CsvFiles ==
    {<<>>, <<Header[1]>>} \cup {h \o d : h \in {Header, HeaderCRLF}, d \in LineLists(MaxCsvRows)}

ExactA == FilterRule(NameA, "exact", "")
PatternAny == FilterRule(<<"*">>, "pattern", "")
BssidA == FilterRule(NameA, "bssid", "")
ProcRuleLists == {<<>>, <<ExactA>>, <<PatternAny>>, <<BssidA>>, <<BssidA, ExactA>>,
                  <<PatternAny, ExactA>>}

ProcPath == "capture"

\* process_kismetdb or process_wigle_csv, by the kind of the file.
process_file(path, file, rules, dry_run, env) ==
    IF file.kind = "kismet"
    THEN process_kismetdb(path, file.exists, file.content, rules, dry_run, env)
    ELSE process_wigle_csv(path, file.exists, file.content, rules, dry_run, env)

scan_file(path, file, rules, env) ==
    IF file.kind = "kismet"
    THEN scan_kismetdb(path, file.exists, file.content, rules, env)
    ELSE scan_wigle_csv(path, file.exists, file.content, rules, env)

EmptyDb == [devices |-> <<>>, packets |-> <<>>, datasources |-> <<>>, hasDatasources |-> FALSE]

KismetFiles ==
    {[kind |-> "kismet", exists |-> TRUE, content |-> c] : c \in Databases}
    \cup {[kind |-> "kismet", exists |-> FALSE, content |-> EmptyDb]}

WigleFiles ==
    {[kind |-> "csv", exists |-> TRUE, content |-> c] : c \in CsvFiles}
    \cup {[kind |-> "csv", exists |-> FALSE, content |-> <<>>]}

InitProc ==
    /\ MatchIdle
    /\ SysIdle
    /\ CallIdle
    /\ \/ pFile \in KismetFiles /\ pEnv \in DbEnvs
       \/ pFile \in WigleFiles /\ pEnv \in CsvEnvs
    /\ pFile0 = pFile
    /\ pRules \in ProcRuleLists
    /\ pScan = NoOut /\ pRun = NoOut
    /\ pPc = "start"

\* scan_kismetdb / scan_wigle_csv
ProcScan ==
    /\ pPc = "start"
    /\ pScan' = scan_file(ProcPath, pFile, pRules, pEnv)
    /\ pFile' = [pFile EXCEPT !.content = pScan'.content]
    /\ pPc' = "scanned"
    /\ UNCHANGED <<pFile0, pRules, pEnv, pRun, matchVars, sysVars, callVars>>

\* process_kismetdb / process_wigle_csv with dry_run=False
ProcMutate ==
    /\ pPc \in {"start", "scanned"}
    /\ pRun' = process_file(ProcPath, pFile, pRules, FALSE, pEnv)
    /\ pFile' = [pFile EXCEPT !.content = pRun'.content]
    /\ pPc' = IF pPc = "scanned" THEN "both" ELSE "mutated"
    /\ UNCHANGED <<pFile0, pRules, pEnv, pScan, matchVars, sysVars, callVars>>

NextProc == ProcScan \/ ProcMutate

SpecProc == InitProc /\ [][NextProc]_vars

(***************************************************************************)
(* The rule file (filter_rules.conf).  Text here is a sequence of tokens:  *)
(* a one-character string, or a word holding no '|' and no blank (a        *)
(* section marker, a type name).  A line of the file is the text add_*     *)
(* wrote; the readers strip it and split it at '|'.                        *)
(***************************************************************************)
SECTION_STATIC == "[static_exclusions]"
SECTION_DYNAMIC == "[dynamic_exclusions]"
SECTION_BTLE_DYNAMIC == "[btle_dynamic_exclusions]"
SECTION_BT_DYNAMIC == "[bt_dynamic_exclusions]"
SECTION_BTLE_STATIC == "[btle_static_exclusions]"
SECTION_BT_STATIC == "[bt_static_exclusions]"
SectionMarkers ==
    {SECTION_STATIC, SECTION_DYNAMIC, SECTION_BTLE_DYNAMIC, SECTION_BT_DYNAMIC,
     SECTION_BTLE_STATIC, SECTION_BT_STATIC}
VALID_PHY_TYPES == {"wifi", "btle", "bt"}

RECURSIVE lstrip(_)
lstrip(t) == IF t # <<>> /\ t[1] = " " THEN lstrip(Tail(t)) ELSE t

RECURSIVE rstrip(_)
rstrip(t) == IF t # <<>> /\ t[Len(t)] = " " THEN rstrip(SubSeq(t, 1, Len(t) - 1)) ELSE t

\* str.strip()
strip(t) == rstrip(lstrip(t))

lower_char(c) ==
    CASE c = "Y" -> "y" [] c = "D" -> "d" [] c = "A" -> "a" [] c = "M" -> "m" [] OTHER -> c

upper_char(c) ==
    CASE c = "y" -> "Y" [] c = "d" -> "D" [] c = "a" -> "A" [] c = "s" -> "S"
      [] c = "n" -> "N" [] c = "bssid" -> "BSSID" [] OTHER -> c

\* str.lower() and str.upper()
str_lower(t) == [k \in DOMAIN t |-> lower_char(t[k])]
str_upper(t) == [k \in DOMAIN t |-> upper_char(t[k])]

RECURSIVE find(_, _, _)
find(t, sep, i) ==
    IF i > Len(t) THEN 0 ELSE IF t[i] = sep THEN i ELSE find(t, sep, i + 1)

\* str.split(sep, maxsplit); maxsplit -1 is no limit.
RECURSIVE split(_, _, _)
split(t, sep, maxsplit) ==
    LET k == find(t, sep, 1)
    IN  IF k = 0 \/ maxsplit = 0 THEN <<t>>
        ELSE <<SubSeq(t, 1, k - 1)>> \o split(SubSeq(t, k + 1, Len(t)), sep, maxsplit - 1)

\* The string a field holds when it is one word; no type name otherwise.
text_of(field) == IF Len(field) = 1 THEN field[1] ELSE "other"

\* line.startswith("[") and line.endswith("]")
is_bracketed(line) == Len(line) = 1 /\ line[1] \in SectionMarkers

\* not line or line.startswith("#")
is_blank_or_comment(line) == line = <<>> \/ line[1] = "#"

\* The entries of the sections the current marker maps to `wanted`, each
\* split with maxsplit.
RECURSIVE load_sections(_, _, _, _, _, _)
load_sections(rf, i, current, wanted, maxsplit, rules) ==
    IF i > Len(rf) THEN rules
    ELSE
        LET line == strip(rf[i])
        IN  IF is_bracketed(line) THEN
                load_sections(rf, i + 1, line[1], wanted, maxsplit, rules)
            ELSE IF is_blank_or_comment(line) \/ current # wanted THEN
                load_sections(rf, i + 1, current, wanted, maxsplit, rules)
            ELSE
                LET parts == split(line, "|", maxsplit)
                IN  load_sections(rf, i + 1, current, wanted, maxsplit,
                        IF Len(parts) >= 2
                        THEN Append(rules, FilterRule(parts[1], text_of(parts[2]),
                                        IF Len(parts) > 2 THEN parts[3] ELSE <<>>))
                        ELSE rules)

load_dynamic_exclusions(rf) == load_sections(rf, 1, "", SECTION_DYNAMIC, -1, <<>>)

\* (static_rules, dynamic_rules)
load_all_exclusions(rf) ==
    [static  |-> load_sections(rf, 1, "", SECTION_STATIC, -1, <<>>),
     dynamic |-> load_sections(rf, 1, "", SECTION_DYNAMIC, -1, <<>>)]

\* FilterManager.load_config: the entries of one section, line.split("|", 2).
load_config(rf, section) == load_sections(rf, 1, "", section, 2, <<>>)

section_map(phy) ==
    CASE phy = "wifi" -> SECTION_DYNAMIC
      [] phy = "btle" -> SECTION_BTLE_DYNAMIC
      [] OTHER -> SECTION_BT_DYNAMIC

check_duplicate_dynamic(rf, value, phy) ==
    LET entries == load_config(rf, section_map(phy))
    IN  \E k \in DOMAIN entries : str_upper(entries[k].value) = str_upper(value)

\* sed -i '/^\[section\]$/a entry': the entry, from its first character that
\* is not a blank, goes in after every line that is the marker and nothing else.
RECURSIVE add_to_section(_, _, _)
add_to_section(rf, section, entry) ==
    IF rf = <<>> THEN <<>>
    ELSE (IF Head(rf) = <<section>> THEN <<Head(rf), lstrip(entry)>> ELSE <<Head(rf)>>)
         \o add_to_section(Tail(rf), section, entry)

\* The rule file after add_dynamic; json_error exits the program.
add_dynamic(rf, ssid, match_type, description, phy) ==
    IF ssid = <<>> THEN rf
    ELSE IF match_type \notin {"exact", "pattern"} THEN rf
    ELSE IF phy \notin VALID_PHY_TYPES THEN rf
    ELSE IF check_duplicate_dynamic(rf, ssid, phy) THEN rf
    ELSE add_to_section(rf, section_map(phy), ssid \o <<"|", match_type, "|">> \o description)

(***************************************************************************)
(* The capture directory.  A file is its content and its age, the seconds  *)
(* since its last modification (time.time() - mtime), kept up to the       *)
(* in-use window, beyond which every age reads the same.                   *)
(***************************************************************************)
InUseWindow == 30

KPath == [dir |-> "logs", name |-> "a", ext |-> ".kismet"]
WPath == [dir |-> "logs", name |-> "a", ext |-> ".wiglecsv"]
Paths == {KPath, WPath}
LogsDir == [dir |-> "", name |-> "logs", ext |-> ""]
\* A capture of the same name in a subdirectory of the logs directory.
SubKPath == [dir |-> "logs/sub", name |-> "a", ext |-> ".kismet"]

\* os.path.basename
basename(p) == <<p.name, p.ext>>

RECURSIVE sorted_by_mtime(_, _)
sorted_by_mtime(fs, S) ==
    IF S = {} THEN <<>>
    ELSE LET p == CHOOSE x \in S : \A y \in S : fs[x].age <= fs[y].age
         IN  <<p>> \o sorted_by_mtime(fs, S \ {p})

find_kismetdb_files(fs) == sorted_by_mtime(fs, {p \in DOMAIN fs : p.ext = ".kismet"})

\* filename.endswith(".wiglecsv") or "wigle" in filename.lower()
find_wigle_csv_files(fs) == sorted_by_mtime(fs, {p \in DOMAIN fs : p.ext = ".wiglecsv"})

is_file_in_use(fs, p) == p \in DOMAIN fs /\ fs[p].age < InUseWindow

\* files = [path] if os.path.isfile(path) else find_kismetdb_files + find_wigle_csv_files
target_files(fs, arg) ==
    IF arg \in DOMAIN fs THEN <<arg>> ELSE find_kismetdb_files(fs) \o find_wigle_csv_files(fs)

\* datetime.now().strftime(...): the name of the backup directory.  The
\* workflow below starts only when no backup is kept, so one name is enough.
timestamp == "YYYY-MM-DD_HHMMSS"

\* shutil.copy2 of every listed file that exists into backup_dir/timestamp.
RECURSIVE create_backup(_, _, _, _, _)
create_backup(bk, dir, list, i, fs) ==
    IF i > Len(list) THEN bk
    ELSE create_backup(
            IF list[i] \in DOMAIN fs
            THEN {b \in bk : ~(b.dir = dir /\ b.name = basename(list[i]))}
                 \cup {[dir |-> dir, name |-> basename(list[i]), content |-> fs[list[i]].content]}
            ELSE bk,
            dir, list, i + 1, fs)

delete_backup(bk, dir) == {b \in bk : b.dir # dir}

\* Which of process_kismetdb / process_wigle_csv the caller's if-chain picks.
processor_for(dispatch, p) ==
    IF p.ext = ".kismet" THEN "kismet"
    ELSE IF dispatch = "cli" \/ dispatch = "interactive" THEN "csv"
    ELSE IF p.ext = ".wiglecsv" THEN "csv"
    ELSE "skip"

\* The directory after a process_* call that returned o: a write renews the mtime.
written_back(fs, p, o) ==
    [fs |-> IF o.wrote THEN [fs EXCEPT ![p] = [content |-> o.content, age |-> 0]] ELSE fs,
     result |-> o.result]

\* One process_* call on a file of the directory.
apply_processor(fs, p, kind, rules, dry_run) ==
    written_back(fs, p,
        process_file(p, [kind |-> kind, exists |-> TRUE, content |-> fs[p].content],
                     rules, dry_run, "ok"))

\* What is recorded of a call: whether the interactive workflow made it,
\* whether the file counted as in use when it was called, whether a backup held
\* the content it was called on, whether it changed the file, and whether it
\* matched a name that no rule of the dynamic section matches.
call_record(h, fs, p, o) ==
    [interactive |-> h.ep = "interactive",
     inUse |-> is_file_in_use(fs, p),
     backedUp |-> \E b \in h.bk : b.name = basename(p) /\ b.content = fs[p].content,
     changed |-> o.fs[p].content # fs[p].content,
     offRule |-> \E k \in DOMAIN o.result.matches :
                    find_matching_rule(o.result.matches[k].ssid, h.dyn) = 0]

\* The loop's state after a call on p that returned o.
after_call(st, p, h, o) ==
    [fs |-> o.fs,
     calls |-> st.calls \cup {call_record(h, st.fs, p, o)},
     infos |-> Append(st.infos, [path |-> p, match_count |-> o.result.removed_count,
                                 success |-> o.result.success])]

\* for file_path in files: ... of an entry point h.
RECURSIVE run_files(_, _, _, _)
run_files(st, list, i, h) ==
    IF i > Len(list) THEN st
    ELSE IF (h.check_in_use /\ is_file_in_use(st.fs, list[i]))
            \/ processor_for(h.dispatch, list[i]) = "skip" THEN
        run_files(st, list, i + 1, h)
    ELSE run_files(
            after_call(st, list[i], h,
                apply_processor(st.fs, list[i], processor_for(h.dispatch, list[i]),
                                h.rules, h.dry_run)),
            list, i + 1, h)

NoCalls(fs) == [fs |-> fs, calls |-> {}, infos |-> <<>>]

preview_sanitization(fs, arg, rules, ep, dyn, bk) ==
    [run_files(NoCalls(fs), target_files(fs, arg), 1,
        [ep |-> ep, rules |-> rules, dyn |-> dyn, dry_run |-> TRUE, bk |-> bk,
         check_in_use |-> TRUE, dispatch |-> "preview"])
     EXCEPT !.infos = SelectSeq(@, LAMBDA f : f.success)]

\* The loop of an entry point that runs on the dynamic rules it loaded and
\* leaves when there are none.
run_with_rules(fs, bk, list, rules, ep, dry_run, check_in_use, dispatch) ==
    IF rules = <<>> THEN NoCalls(fs)
    ELSE run_files(NoCalls(fs), list, 1,
            [ep |-> ep, rules |-> rules, dyn |-> rules, dry_run |-> dry_run, bk |-> bk,
             check_in_use |-> check_in_use, dispatch |-> dispatch])

\* main() with --process PATH [--dry-run]
cli_process(fs, rf, bk, arg, dry_run) ==
    run_with_rules(fs, bk, target_files(fs, arg), load_dynamic_exclusions(rf),
                   "cli", dry_run, TRUE, "cli")

\* The loop of json_process on the rules of both sections.
run_with_all_rules(fs, bk, list, all) ==
    run_files(NoCalls(fs), list, 1,
        [ep |-> "json_process", rules |-> all.static \o all.dynamic, dyn |-> all.dynamic,
         dry_run |-> FALSE, bk |-> bk, check_in_use |-> TRUE, dispatch |-> "json"])

\* A json_process that loads both sections.
json_process_all_rules(fs, rf, bk, arg) ==
    run_with_all_rules(fs, bk, target_files(fs, arg), load_all_exclusions(rf))

json_process(fs, rf, bk, arg) ==
    run_with_rules(fs, bk, target_files(fs, arg), load_dynamic_exclusions(rf),
                   "json_process", FALSE, TRUE, "json")

\* The preview on the rules handed over.
preview_dynamic(fs, arg, bk, dynamic_rules) ==
    preview_sanitization(fs, arg, dynamic_rules, "json_preview", dynamic_rules, bk)

json_preview(fs, rf, bk, arg) ==
    preview_dynamic(fs, arg, bk, load_all_exclusions(rf).dynamic)

\* The daemon's loop state after process_kismetdb on p returned o.
after_pending(st, p, h, o) ==
    [fs |-> o.fs,
     calls |-> st.calls \cup {call_record(h, st.fs, p, o)},
     mt |-> IF o.fs[p] = st.fs[p] THEN st.mt \cup {p} ELSE st.mt \ {p}]

\* FilterDaemon.process_pending_files.  mt is the set of paths whose mtime in
\* file_mtimes is the mtime the file has now.
RECURSIVE process_pending(_, _, _, _)
process_pending(st, list, i, h) ==
    IF i > Len(list) THEN st
    ELSE IF is_file_in_use(st.fs, list[i]) \/ list[i] \in st.mt THEN
        process_pending(st, list, i + 1, h)
    ELSE process_pending(
            after_pending(st, list[i], h,
                apply_processor(st.fs, list[i], "kismet", h.rules, FALSE)),
            list, i + 1, h)

\* process_pending_files() with the rules load_rules() loaded.
pending_with_rules(fs, bk, mt, rules) ==
    IF rules = <<>> THEN [fs |-> fs, calls |-> {}, mt |-> mt]
    ELSE process_pending([fs |-> fs, calls |-> {}, mt |-> mt],
            find_kismetdb_files(fs), 1,
            [ep |-> "poll", rules |-> rules, dyn |-> rules, dry_run |-> FALSE, bk |-> bk])

\* load_rules() and process_pending_files() of one turn of FilterDaemon.run
process_pending_files(fs, rf, bk, mt) ==
    pending_with_rules(fs, bk, mt, load_dynamic_exclusions(rf))

\* The body of run_daemon_with_inotify's loop for an event on p, after its sleep.
inotify_event(fs, rf, bk, p) ==
    IF p.ext # ".kismet" \/ is_file_in_use(fs, p) THEN NoCalls(fs)
    ELSE run_with_rules(fs, bk, <<p>>, load_dynamic_exclusions(rf),
                        "inotify", FALSE, FALSE, "cli")

\* What input() returned or raised.
Line(t) == [kind |-> "line", text |-> t]
Eof == [kind |-> "eof", text |-> <<>>]
Interrupt == [kind |-> "interrupt", text |-> <<>>]

\* A prompt that takes any line that is not empty.
is_confirmed_any_line(ans) == ans.kind = "line" /\ ans.text # <<>>

\* response = input(...).strip().lower(); response == "y"
is_confirmed(ans) == ans.kind = "line" /\ str_lower(strip(ans.text)) = <<"y">>

\* response == "d" at the backup disposition prompt; EOF and interrupt read as "".
wants_delete(ans) == ans.kind = "line" /\ str_lower(strip(ans.text)) = <<"d">>

RECURSIVE total_matches(_)
total_matches(infos) ==
    IF infos = <<>> THEN 0 ELSE Head(infos).match_count + total_matches(Tail(infos))

\* [f["path"] for f in preview["files"] if f["match_count"] > 0]
files_to_process(infos) ==
    LET kept == SelectSeq(infos, LAMBDA f : f.match_count > 0)
    IN  [k \in DOMAIN kept |-> kept[k].path]

\* The paths of mt whose file a run left as it was.
still_current(mt, fs, fs2) == {p \in mt : fs2[p] = fs[p]}

(***************************************************************************)
(* The system: the rule file under add_dynamic, the capture directory      *)
(* under Kismet and under the entry points of the Filter Remover.          *)
(***************************************************************************)
MaxDynamicEntries == 1
TickSeconds == 30

NameS == <<"s">>
DevA == [key |-> 1, devmac |-> Mac(1), phyname |-> WIFI, device |-> ObjBlob(<<Entry(NameA)>>, <<>>)]
DevS == [key |-> 2, devmac |-> Mac(2), phyname |-> WIFI, device |-> ObjBlob(<<Entry(NameS)>>, <<>>)]

\* What Kismet logs: a device named by a dynamic rule and one named by a static rule.
FreshDb == [devices |-> <<DevA, DevS>>, packets |-> PacketRows,
            datasources |-> <<Mac(1), OtherMac>>, hasDatasources |-> TRUE]
FreshCsv == Header \o << <<Mac(1), NameA, <<"WPA2", NL>>>> >>
Fresh(p) == IF p.ext = ".kismet" THEN FreshDb ELSE FreshCsv

InitialRuleFile ==
    << <<SECTION_STATIC>>,
       NameS \o <<"|", "exact", "|">>,
       <<"M0", "|", "bssid", "|">>,
       <<SECTION_DYNAMIC>> >>

\* The names and types handed to add_dynamic: a name, a name with a '|' in it,
\* no name; a type add_dynamic takes and one it does not.
SsidInputs == {NameA, <<"M", "|", "bssid">>, <<>>}
TypeInputs == {"exact", "bssid"}
PhyInputs == {"wifi", "zigbee"}
PathInputs == Paths \cup {LogsDir}
ConfirmInputs == {Line(<<"y">>), Line(<<" ", "Y">>), Line(<<"n">>), Eof, Interrupt}
DispositionInputs == {Line(<<"d">>), Line(<<"D">>), Line(<<"k">>), Eof}

Init ==
    /\ MatchIdle
    /\ ProcIdle
    /\ CallIdle
    /\ ruleFile = InitialRuleFile
    /\ files = [p \in Paths |-> [content |-> Fresh(p), age |-> InUseWindow]]
    /\ backups = {}
    /\ iu = IuIdle
    /\ file_mtimes = {}
    /\ last = {}
    /\ kismetConf = <<>>

\* warpie-filter-manager --add-dynamic
AddDynamic(ssid, match_type, phy) ==
    /\ Len(ruleFile) < Len(InitialRuleFile) + MaxDynamicEntries
    /\ ruleFile' = add_dynamic(ruleFile, ssid, match_type, <<>>, phy)
    /\ last' = {}
    /\ UNCHANGED <<files, backups, iu, file_mtimes, kismetConf, matchVars, procVars, callVars>>

\* The effect of a run st of an entry point that holds no state of its own.
Ran(st) ==
    /\ files' = st.fs
    /\ last' = st.calls
    /\ file_mtimes' = still_current(file_mtimes, files, st.fs)
    /\ UNCHANGED <<ruleFile, backups, iu, kismetConf, matchVars, procVars, callVars>>

CliProcess(arg, dry_run) == Ran(cli_process(files, ruleFile, backups, arg, dry_run))

JsonProcess(arg) == Ran(json_process(files, ruleFile, backups, arg))

\* --json --preview, --json --process --dry-run and --preview
JsonPreview(arg) == Ran(json_preview(files, ruleFile, backups, arg))

InotifyEvent(p) == Ran(inotify_event(files, ruleFile, backups, p))

\* The effect of a turn st of the polling daemon.
Polled(st) ==
    /\ files' = st.fs
    /\ last' = st.calls
    /\ file_mtimes' = st.mt
    /\ UNCHANGED <<ruleFile, backups, iu, kismetConf, matchVars, procVars, callVars>>

\* One turn of FilterDaemon.run's loop.
PollCycle == Polled(process_pending_files(files, ruleFile, backups, file_mtimes))

\* Lines 792-837: the workflow ends when the preview pv holds no file or no
\* match, and waits at its confirmation prompt otherwise.
IUPreviewed(all_rules, dyn, pv) ==
    /\ files' = pv.fs
    /\ last' = pv.calls
    /\ iu' = IF pv.infos = <<>> \/ total_matches(pv.infos) = 0
             THEN [IuIdle EXCEPT !.steps = <<"scan">>]
             ELSE [IuIdle EXCEPT !.pc = "prompt", !.all_rules = all_rules, !.dyn = dyn,
                                 !.preview = pv.infos, !.steps = <<"scan", "counts">>]

\* Lines 776-790, all being what load_all_exclusions returned.
IULoaded(arg, all) ==
    IF all.static \o all.dynamic = <<>> THEN
        /\ iu' = IuIdle
        /\ last' = {}
        /\ UNCHANGED files
    ELSE IUPreviewed(all.static \o all.dynamic, all.dynamic,
            preview_sanitization(files, arg, all.static \o all.dynamic, "interactive",
                                 all.dynamic, backups))

\* interactive_pre_upload up to its confirmation prompt.  The model follows
\* one kept backup at a time: the workflow starts when none is kept.
IUStart(arg) ==
    /\ iu.pc = "idle"
    /\ backups = {}
    /\ IULoaded(arg, load_all_exclusions(ruleFile))
    /\ UNCHANGED <<ruleFile, backups, file_mtimes, kismetConf, matchVars, procVars, callVars>>

\* Lines 865-889: the report, st being the state the processing loop left.
IUProcessed(ans, bk, st) ==
    /\ backups' = bk
    /\ files' = st.fs
    /\ last' = st.calls
    /\ file_mtimes' = still_current(file_mtimes, files, st.fs)
    /\ iu' = [iu EXCEPT !.pc = "disposition", !.answer = ans,
                        !.backup_path = timestamp,
                        !.all_rules = <<>>, !.dyn = <<>>, !.preview = <<>>,
                        !.steps = @ \o <<"confirm", "backup", "mutate", "report">>,
                        !.modified = st.fs # files,
                        !.backed = bk # backups]

\* Lines 853-863: the processing loop, bk being the backups create_backup left.
IUBackedUp(ans, list, bk) ==
    IUProcessed(ans, bk,
        run_files(NoCalls(files), list, 1,
            [ep |-> "interactive", rules |-> iu.all_rules, dyn |-> iu.dyn,
             dry_run |-> FALSE, bk |-> bk, check_in_use |-> FALSE,
             dispatch |-> "interactive"]))

\* Lines 842-843: create_backup(files_to_process).
IUConfirmed(ans, list) ==
    IUBackedUp(ans, list, create_backup(backups, timestamp, list, 1, files))

\* The answer to "Proceed with removal?" and, when it confirms, the backup,
\* the processing and the report, up to the backup disposition prompt.
IUAnswer(ans) ==
    /\ iu.pc = "prompt"
    /\ IF is_confirmed(ans) THEN IUConfirmed(ans, files_to_process(iu.preview))
       ELSE
           /\ iu' = [iu EXCEPT !.pc = "idle", !.answer = ans, !.steps = Append(@, "confirm"),
                               !.all_rules = <<>>, !.dyn = <<>>, !.preview = <<>>]
           /\ last' = {}
           /\ UNCHANGED <<backups, files, file_mtimes>>
    /\ UNCHANGED <<ruleFile, kismetConf, matchVars, procVars, callVars>>

\* The answer to the backup disposition prompt.
IUDisposition(ans) ==
    /\ iu.pc = "disposition"
    /\ backups' = IF wants_delete(ans) THEN delete_backup(backups, iu.backup_path) ELSE backups
    /\ iu' = [iu EXCEPT !.pc = "idle", !.backup_path = "", !.steps = Append(@, "disposition")]
    /\ last' = {}
    /\ UNCHANGED <<ruleFile, files, file_mtimes, kismetConf, matchVars, procVars, callVars>>

\* Kismet writes its log: the devices it sees are (back) in the file.
KismetWrite(p) ==
    /\ files[p] # [content |-> Fresh(p), age |-> 0]
    /\ files' = [files EXCEPT ![p] = [content |-> Fresh(p), age |-> 0]]
    /\ file_mtimes' = file_mtimes \ {p}
    /\ last' = {}
    /\ UNCHANGED <<ruleFile, backups, iu, kismetConf, matchVars, procVars, callVars>>

\* Time passes.
Tick ==
    /\ \E p \in DOMAIN files : files[p].age < InUseWindow
    /\ files' = [p \in DOMAIN files |->
                    [files[p] EXCEPT !.age = IF @ + TickSeconds < InUseWindow
                                             THEN @ + TickSeconds ELSE InUseWindow]]
    /\ last' = {}
    /\ UNCHANGED <<ruleFile, backups, iu, file_mtimes, kismetConf, matchVars, procVars, callVars>>

Next ==
    \/ \E ssid \in SsidInputs, t \in TypeInputs, phy \in PhyInputs : AddDynamic(ssid, t, phy)
    \/ \E arg \in PathInputs, dry_run \in BOOLEAN : CliProcess(arg, dry_run)
    \/ \E arg \in PathInputs : JsonProcess(arg)
    \/ \E arg \in PathInputs : JsonPreview(arg)
    \/ \E p \in Paths : InotifyEvent(p)
    \/ PollCycle
    \/ \E arg \in PathInputs : IUStart(arg)
    \/ \E ans \in ConfirmInputs : IUAnswer(ans)
    \/ \E ans \in DispositionInputs : IUDisposition(ans)
    \/ \E p \in Paths : KismetWrite(p)
    \/ Tick

Spec == Init /\ [][Next]_vars

(***************************************************************************)
(* Glob semantics as documented:'*' any run of characters, '?' exactly    *)
(* one character, every other character itself, letters compared without   *)
(* regard to case.                                                         *)
(***************************************************************************)
Lower(c) == IF c = "A" THEN "a" ELSE IF c = "B" THEN "b" ELSE IF c = "Y" THEN "y" ELSE c

RECURSIVE GlobNoCase(_, _, _, _)
GlobNoCase(name, pat, i, j) ==
    IF j > Len(pat) THEN i > Len(name)
    ELSE IF pat[j] = "*" THEN
        \/ GlobNoCase(name, pat, i, j + 1)
        \/ (i <= Len(name) /\ GlobNoCase(name, pat, i + 1, j))
    ELSE IF pat[j] = "?" THEN
        i <= Len(name) /\ GlobNoCase(name, pat, i + 1, j + 1)
    ELSE
        /\ i <= Len(name)
        /\ Lower(name[i]) = Lower(pat[j])
        /\ GlobNoCase(name, pat, i + 1, j + 1)

\* C10: for every name and every pattern rule, matches_pattern is true exactly
\* when the name matches the rule's value as a glob ('*' any run, '?' one
\* character) with letters compared case-insensitively.
C10_PatternIsCaseInsensitiveGlob ==
    (mPc = "done" /\ mRule.match_type = "pattern")
        => (mResult = GlobNoCase(mName, mRule.value, 1, 1))

(***************************************************************************)
(* Properties of one scan and one mutating run (SpecProc).                 *)
(***************************************************************************)
\* The names a device advertises: the ssid of every object entry of its
\* advertised-ssid map, the empty name of a hidden network included.
AdvertisedNames(blob) ==
    IF blob.kind = "obj"
    THEN {blob.adv[k].ssid : k \in {j \in DOMAIN blob.adv : blob.adv[j].dict}}
    ELSE {}

NameMatchesSomeRule(name, rules) == \E k \in DOMAIN rules : matches_pattern(name, rules[k])

WifiDevices(db) == {d \in SeqToSet(db.devices) : d.phyname = WIFI}

MutatedKismetOk ==
    /\ pPc \in {"mutated", "both"}
    /\ pFile.kind = "kismet"
    /\ ~pRun.raised
    /\ pRun.result.success

\* C2: after process_kismetdb(db, rules, dry_run=False) returns success=true,
\* no WiFi device remains any of whose advertised names matches a rule.
C2_NoDeviceWithMatchingNameRemains ==
    MutatedKismetOk =>
        \A d \in WifiDevices(pFile.content) : \A n \in AdvertisedNames(d.device) :
            ~NameMatchesSomeRule(n, pRules)

\* C2 (amended): after process_kismetdb(db, rules, dry_run=False) returns
\* success=true, no WiFi device remains any of whose non-empty advertised names
\* matches a rule, and every device that remains was there before the run.
C2_NoDeviceWithNonEmptyMatchingNameRemains ==
    MutatedKismetOk =>
        /\ \A d \in WifiDevices(pFile.content) : \A n \in AdvertisedNames(d.device) :
                n # <<>> => ~NameMatchesSomeRule(n, pRules)
        /\ SeqToSet(pFile.content.devices) \subseteq SeqToSet(pFile0.content.devices)

\* A run that deleted a device advertising two names, the second one matching,
\* and kept another WiFi device.
C2_Witness ==
    /\ MutatedKismetOk
    /\ \E d \in WifiDevices(pFile0.content) :
            /\ d \notin WifiDevices(pFile.content)
            /\ Len(d.device.adv) = 2
            /\ NameMatchesSomeRule(d.device.adv[2].ssid, pRules)
    /\ WifiDevices(pFile.content) # {}

\* A database error between the first DELETE and the end of the commit: the
\* run found something to delete and a statement of the batch raised.  The
\* OperationalError of a missing datasources table is not counted.
ErrorAfterDelete ==
    /\ pPc \in {"mutated", "both"}
    /\ pFile.kind = "kismet"
    /\ ~pRun.raised
    /\ pRun.result.removed_count > 0
    /\ pEnv \in {"err_delete_devices", "err_delete_packets", "operr_datasources",
                 "err_datasources", "err_commit"}
    /\ pEnv = "operr_datasources" => pFile0.content.hasDatasources

\* C5: when a database error occurs in process_kismetdb after a DELETE was
\* issued and before the commit, the database ends equal to its pre-run content
\* and the result has success=false and a non-empty error.
C5_ErrorLeavesDatabaseAsBefore ==
    ErrorAfterDelete =>
        /\ pFile.content = pFile0.content
        /\ ~pRun.result.success
        /\ pRun.result.error # ""

\* C7: process_kismetdb and process_wigle_csv write the file only when dry_run
\* is false and at least one record matched; a scan and a mutating run that
\* removes nothing leave the file as it was.
C7_WritesOnlyWhenMatched ==
    /\ pPc \in {"scanned", "both"} => ~pScan.wrote
    /\ pPc = "scanned" => pFile = pFile0
    /\ pPc \in {"mutated", "both"} =>
          /\ pRun.wrote => pRun.result.removed_count > 0
          /\ pRun.result.removed_count = 0 => pFile = pFile0
          /\ pFile # pFile0 => pRun.wrote

\* A mutating run on a CSV file with data rows, none matching: nothing written.
C7_Witness ==
    /\ pPc = "mutated"
    /\ pFile.kind = "csv"
    /\ pRun.result.original_count > 0
    /\ pRun.result.removed_count = 0
    /\ pRules # <<>>
    /\ ~pRun.wrote

\* C8: the ProcessingResult of the scan equals the ProcessingResult of the
\* mutating run on the same initial content: same original_count,
\* removed_count, matches, success and error.
C8_ScanResultEqualsMutateResult ==
    pPc = "both" => pScan.result = pRun.result

\* C8 (amended): the scan and the mutating run on the same initial content
\* agree on original_count, removed_count and matches; they agree on success
\* and error too unless the mutating run's deletion or rewrite fails, and then
\* the scan reports success and the mutating run success=false with an error.
C8_ScanEqualsMutateUnlessWriteFails ==
    pPc = "both" =>
        /\ pScan.raised = pRun.raised
        /\ pScan.result.original_count = pRun.result.original_count
        /\ pScan.result.removed_count = pRun.result.removed_count
        /\ pScan.result.matches = pRun.result.matches
        /\ \/ pScan.result = pRun.result
           \/ /\ pRun.result.removed_count > 0
              /\ pEnv \in {"err_delete_devices", "err_delete_packets", "err_datasources",
                           "err_commit", "err_write", "err_truncate"}
              /\ pScan.result.success /\ pScan.result.error = ""
              /\ ~pRun.result.success /\ pRun.result.error # ""

\* A scan followed by a mutating run that removed records and wrote the file.
C8_Witness ==
    /\ pPc = "both"
    /\ pRun.wrote
    /\ pRun.result.success
    /\ pScan.result.removed_count > 0
    /\ pFile # pFile0


(***************************************************************************)
(* Properties of the rule file, the capture directory and the entry        *)
(* points, under Spec.                                                     *)
(***************************************************************************)
\* The address-literal entries the loaders read in the static and the dynamic
\* section of a rule file.
BssidEntries(rf) ==
    {r \in SeqToSet(load_config(rf, SECTION_STATIC))
            \cup SeqToSet(load_config(rf, SECTION_DYNAMIC))
            \cup SeqToSet(load_dynamic_exclusions(rf)) : r.match_type = "bssid"}

\* C1: across add_dynamic calls and Filter Remover runs the set of
\* address-literal (bssid) entries of the rule file never grows, and the
\* dynamic section never holds a bssid-type entry.
C1_NoAddressEntryAppears ==
    /\ BssidEntries(ruleFile) \subseteq BssidEntries(InitialRuleFile)
    /\ \A r \in SeqToSet(load_dynamic_exclusions(ruleFile)) : r.match_type # "bssid"
    /\ \A r \in SeqToSet(load_config(ruleFile, SECTION_DYNAMIC)) : r.match_type # "bssid"

\* C3: in every entry point that runs the remover in mutating mode, a file is
\* changed only by a call made when a backup held the content the call found.
C3_MutatedOnlyAfterBackup == \A c \in last : c.changed => c.backedUp

\* The steps of the interactive workflow, in their order.
WorkflowOrder == <<"scan", "counts", "confirm", "backup", "mutate", "report", "disposition">>

\* The steps taken are the first steps of the workflow, in order, up to an
\* early end after the scan or after the confirmation.
StepsInOrder(steps) ==
    \/ steps = SubSeq(WorkflowOrder, 1, Len(steps))
    \/ steps = <<"scan">>

\* C4 (as stated): the interactive workflow takes its steps in order; a file is
\* modified or a backup created only when the answer to the confirmation
\* prompt is exactly "y", and with any other answer, EOF or interrupt the
\* workflow ends with every file and backup as it was.
C4_OnlyExactlyYProceeds ==
    [][(iu.pc = "prompt" /\ iu'.pc # "prompt") =>
            /\ StepsInOrder(iu'.steps)
            /\ IF iu'.answer = Line(<<"y">>)
               THEN \A c \in last' : c.changed => c.backedUp
               ELSE files' = files /\ backups' = backups /\ iu'.pc = "idle"]_vars

\* C4 (amended): the same with the answer read as the code reads it, stripped
\* of surrounding blanks and lowercased.
C4_OnlyNormalisedYProceeds ==
    [][/\ StepsInOrder(iu'.steps)
       /\ (iu.pc = "prompt" /\ iu'.pc # "prompt") =>
            IF iu'.answer.kind = "line" /\ str_lower(strip(iu'.answer.text)) = <<"y">>
            THEN /\ iu'.pc = "disposition"
                 /\ \A c \in last' : c.changed => c.backedUp
            ELSE files' = files /\ backups' = backups /\ iu'.pc = "idle"]_vars

\* The workflow went through on the answer " Y": a backup was created, a file
\* modified, and the disposition prompt is next.
C4_Witness ==
    /\ iu.pc = "disposition"
    /\ iu.answer = Line(<<" ", "Y">>)
    /\ iu.steps = SubSeq(WorkflowOrder, 1, 6)
    /\ iu.modified
    /\ iu.backed

\* C6: no run scans or mutates a file that, when it is processed, was modified
\* within the last 30 seconds.
C6_NoInUseFileProcessed == \A c \in last : ~c.inUse

MaxRules == 2

FindValues == {<<"a">>, <<"A">>, <<"*">>, <<"a", "*">>}
FindRules == {FilterRule(v, t, "") : v \in FindValues, t \in {"exact", "pattern", "bssid"}}

RECURSIVE ListsUpTo(_, _)
ListsUpTo(S, n) ==
    IF n = 0 THEN {<<>>}
    ELSE ListsUpTo(S, n - 1) \cup {Append(l, x) : l \in ListsUpTo(S, n - 1), x \in S}

InitFind ==
    /\ MatchIdle
    /\ ProcIdle
    /\ SysIdle
    /\ cArgs \in {[ssid |-> n, rules |-> l] : n \in Names, l \in ListsUpTo(FindRules, MaxRules)}
    /\ cResult = <<>>
    /\ cPc = "find"

FindCall ==
    /\ cPc = "find"
    /\ cResult' = find_matching_rule(cArgs.ssid, cArgs.rules)
    /\ cPc' = "found"
    /\ UNCHANGED <<cArgs, matchVars, procVars, sysVars>>

NextFind == FindCall

SpecFind == InitFind /\ [][NextFind]_vars

\* C11: find_matching_rule returns the rule at the smallest index whose rule
\* matches the name, and None (0) when no rule of the list matches; the list
\* is left as it was given.
C11_FirstMatchingRuleWins ==
    [][cPc = "find" =>
        /\ cArgs' = cArgs
        /\ cResult' \in 0 .. Len(cArgs.rules)
        /\ \A k \in 1 .. Len(cArgs.rules) :
                (k < cResult' \/ cResult' = 0) => ~matches_pattern(cArgs.ssid, cArgs.rules[k])
        /\ cResult' # 0 => matches_pattern(cArgs.ssid, cArgs.rules[cResult'])]_cPc

\* A broad pattern in front of a more specific rule that matches too: the
\* call returned the pattern.
C11_Witness ==
    /\ cPc = "found"
    /\ cResult = 1
    /\ Len(cArgs.rules) = 2
    /\ cArgs.rules[1] = FilterRule(<<"*">>, "pattern", "")
    /\ cArgs.rules[2] = FilterRule(cArgs.ssid, "exact", "")


(***************************************************************************)
(* The WiGLE converter (bin/warpie-kismet-to-wigle.py): the Rate Limiter.  *)
(* A DeviceRecord's first_seen is a count of ticks since the epoch, not    *)
(* negative, TicksPerSecond ticks to the second; rssi is an integer.       *)
(***************************************************************************)
MaxRecords == 3

TicksPerSecond == 2

\* int(device.first_seen.timestamp())
ts_second(first_seen) == first_seen \div TicksPerSecond

\* key = (device.mac, ts_second)
device_key(device) == <<device.mac, ts_second(device.first_seen)>>

\* The place of a key in seen_keys, in insertion order; 0 when it is not in.
RECURSIVE key_index(_, _, _)
key_index(seen_keys, key, k) ==
    IF k > Len(seen_keys) THEN 0
    ELSE IF seen_keys[k].key = key THEN k
    ELSE key_index(seen_keys, key, k + 1)

\* A comparison that takes an equal signal for a better one.
is_stronger_or_equal(device, kept) == device.rssi >= kept.rssi

\* device.rssi > seen_keys[key].rssi
is_stronger(device, kept) == device.rssi > kept.rssi

\* One turn of the loop: k is the place of the device's key in seen_keys.  A
\* dict keeps a key at the place of its first insertion when its value is
\* replaced.
seen_update(seen_keys, device, k) ==
    IF k = 0 THEN Append(seen_keys, [key |-> device_key(device), device |-> device])
    ELSE IF is_stronger(device, seen_keys[k].device)
         THEN [seen_keys EXCEPT ![k] = [key |-> @.key, device |-> device]]
    ELSE seen_keys

RECURSIVE rate_limit_from(_, _, _)
rate_limit_from(devices, i, seen_keys) ==
    IF i > Len(devices) THEN seen_keys
    ELSE rate_limit_from(devices, i + 1,
            seen_update(seen_keys, devices[i],
                        key_index(seen_keys, device_key(devices[i]), 1)))

\* list(seen_keys.values())
dict_values(seen_keys) == [k \in DOMAIN seen_keys |-> seen_keys[k].device]

\* A loop that starts at the second record.
apply_rate_limiting_skip_first(devices) == dict_values(rate_limit_from(devices, 2, <<>>))

apply_rate_limiting(devices) == dict_values(rate_limit_from(devices, 1, <<>>))

RateMacs == {"M1", "M2"}
RateRecords ==
    {[mac |-> m, first_seen |-> t, rssi |-> r] :
        m \in RateMacs, t \in 0 .. TicksPerSecond, r \in {-70, -50}}

InitRate ==
    /\ MatchIdle
    /\ ProcIdle
    /\ SysIdle
    /\ cArgs \in ListsUpTo(RateRecords, MaxRecords)
    /\ cResult = [once |-> <<>>, twice |-> <<>>]
    /\ cPc = "rate"

\* apply_rate_limiting(devices)
RateCall ==
    /\ cPc = "rate"
    /\ cResult' = [cResult EXCEPT !.once = apply_rate_limiting(cArgs)]
    /\ cPc' = "limited"
    /\ UNCHANGED <<cArgs, matchVars, procVars, sysVars>>

\* apply_rate_limiting on what the first call returned
RateAgain ==
    /\ cPc = "limited"
    /\ cResult' = [cResult EXCEPT !.twice = apply_rate_limiting(cResult.once)]
    /\ cPc' = "again"
    /\ UNCHANGED <<cArgs, matchVars, procVars, sysVars>>

NextRate == RateCall \/ RateAgain

SpecRate == InitRate /\ [][NextRate]_vars


(***************************************************************************)
(* Properties of the Rate Limiter, under SpecRate.                         *)
(***************************************************************************)
\* The (mac, whole second of first_seen) group of a record.
GroupOf(r) == <<r.mac, r.first_seen \div TicksPerSecond>>

\* The places of the input whose record is of group g.
GroupPlaces(input, g) == {j \in DOMAIN input : GroupOf(input[j]) = g}

\* The first place of the input among those of group g with the greatest rssi.
BestPlace(input, g) ==
    CHOOSE j \in GroupPlaces(input, g) :
        \A k \in GroupPlaces(input, g) :
            \/ input[k].rssi < input[j].rssi
            \/ input[k].rssi = input[j].rssi /\ k >= j

\* C14: apply_rate_limiting returns exactly one record per (mac, whole second
\* of first_seen) group of its input, and the record kept for a group is the
\* input record of the group with the greatest rssi, the first of them in
\* input order when several tie.
C14_OneStrongestRecordPerGroup ==
    cPc \in {"limited", "again"} =>
        /\ {GroupOf(cResult.once[k]) : k \in DOMAIN cResult.once}
                = {GroupOf(cArgs[j]) : j \in DOMAIN cArgs}
        /\ \A k, l \in DOMAIN cResult.once :
                GroupOf(cResult.once[k]) = GroupOf(cResult.once[l]) => k = l
        /\ \A k \in DOMAIN cResult.once :
                cResult.once[k] = cArgs[BestPlace(cArgs, GroupOf(cResult.once[k]))]

\* Three records of one group, the second and third tied for the greatest
\* rssi: the second one was kept.
C14_Witness ==
    /\ cPc = "limited"
    /\ Len(cArgs) = 3
    /\ \A j \in DOMAIN cArgs : GroupOf(cArgs[j]) = GroupOf(cArgs[1])
    /\ cArgs[1].rssi < cArgs[2].rssi
    /\ cArgs[2].rssi = cArgs[3].rssi
    /\ cArgs[2] # cArgs[3]
    /\ cResult.once = <<cArgs[2]>>

\* C15: apply_rate_limiting applied to its own result returns that result,
\* the same records in the same order.
C15_RateLimitingIsIdempotent ==
    cPc = "again" => cResult.twice = cResult.once

\* The second call was given a list the first call had shortened and that
\* holds more than one record.
C15_Witness ==
    /\ cPc = "again"
    /\ Len(cResult.once) < Len(cArgs)
    /\ Len(cResult.once) > 1
    /\ cResult.twice = cResult.once


(***************************************************************************)
(* The WiGLE converter: the Export Formatter.  A row is text, a sequence   *)
(* of characters in which a field that holds no ',' '"' or newline may     *)
(* stand as one word.  A coordinate is a whole number of tenths of a       *)
(* millionth of a degree; the inputs drawn never end in 5, where the       *)
(* rounding of a binary float goes either way.                             *)
(***************************************************************************)
MaxFieldLen == 3

Comma == ","
Quote == "\""
Newline == "\n"
FieldChars == {"a", " ", Comma, Quote, Newline}

\* value.replace('"', '""')
RECURSIVE double_quotes(_)
double_quotes(value) ==
    IF value = <<>> THEN <<>>
    ELSE (IF Head(value) = Quote THEN <<Quote, Quote>> ELSE <<Head(value)>>)
         \o double_quotes(Tail(value))

\* "," in value or '"' in value or "\n" in value
needs_quoting(value) == \E k \in DOMAIN value : value[k] \in {Comma, Quote, Newline}

\* An escape that wraps the value and leaves its quotes single.
escape_csv_no_doubling(value) ==
    IF value = <<>> THEN <<>>
    ELSE IF needs_quoting(value) THEN <<Quote>> \o value \o <<Quote>>
    ELSE value

_escape_csv(value) ==
    IF value = <<>> THEN <<>>
    ELSE IF needs_quoting(value) THEN <<Quote>> \o double_quotes(value) \o <<Quote>>
    ELSE value

\* f"{x:.6f}": the coordinate rounded to millionths of a degree, as the
\* number of millionths.
round_6f(x) == IF x >= 0 THEN (x + 5) \div 10 ELSE -((5 - x) \div 10)

\* f"{device.latitude:.6f}" as one word
format_6f(x) == <<ToString(round_6f(x))>>

\* device.first_seen.strftime("%Y-%m-%d %H:%M:%S"): the second, as one word
strftime(first_seen) == <<ToString(ts_second(first_seen))>>

format_device_row(device) ==
    <<device.mac, Comma>> \o _escape_csv(device.name) \o <<Comma, device.auth_mode, Comma>>
    \o strftime(device.first_seen) \o <<Comma, ToString(device.channel), Comma,
                                        ToString(device.rssi), Comma>>
    \o format_6f(device.latitude) \o <<Comma>> \o format_6f(device.longitude)
    \o <<Comma, "0.0", Comma, "0.0", Comma, device.device_type>>

\* DeviceRecord(...)
DeviceRecord(mac, name, auth_mode, first_seen, channel, rssi, latitude, longitude, device_type, phy_name) ==
    [mac |-> mac, name |-> name, auth_mode |-> auth_mode, first_seen |-> first_seen,
     channel |-> channel, rssi |-> rssi, latitude |-> latitude, longitude |-> longitude,
     device_type |-> device_type, phy_name |-> phy_name]

FieldTexts == TextsUpTo(FieldChars, MaxFieldLen)

InitFormat ==
    /\ MatchIdle
    /\ ProcIdle
    /\ SysIdle
    /\ cArgs \in {DeviceRecord("M1", n, "WPA2", 3, 6, -65, 476000000, -1223000000,
                               "WIFI", "IEEE802.11") : n \in FieldTexts}
    /\ cResult = <<>>
    /\ cPc = "format"

\* format_device_row(device)
FormatCall ==
    /\ cPc = "format"
    /\ cResult' = format_device_row(cArgs)
    /\ cPc' = "formatted"
    /\ UNCHANGED <<cArgs, matchVars, procVars, sysVars>>

NextFormat == FormatCall

SpecFormat == InitFormat /\ [][NextFormat]_vars

(***************************************************************************)
(* Reading a row back: the fields between the commas that stand outside    *)
(* double quotes, a quoted field without its quotes and with each doubled  *)
(* quote as one.                                                           *)
(***************************************************************************)
RECURSIVE split_quoted(_, _, _, _, _)
split_quoted(row, i, in_quotes, field, fields) ==
    IF i > Len(row) THEN Append(fields, field)
    ELSE IF in_quotes THEN
        IF row[i] = Quote /\ i < Len(row) /\ row[i + 1] = Quote
        THEN split_quoted(row, i + 2, TRUE, Append(field, Quote), fields)
        ELSE IF row[i] = Quote THEN split_quoted(row, i + 1, FALSE, field, fields)
        ELSE split_quoted(row, i + 1, TRUE, Append(field, row[i]), fields)
    ELSE IF row[i] = Comma THEN split_quoted(row, i + 1, FALSE, <<>>, Append(fields, field))
    ELSE IF row[i] = Quote /\ field = <<>> THEN split_quoted(row, i + 1, TRUE, field, fields)
    ELSE split_quoted(row, i + 1, FALSE, Append(field, row[i]), fields)

\* The name as the row is to carry it.
QuotedName(name) ==
    IF \E k \in DOMAIN name : name[k] = Comma \/ name[k] = Quote \/ name[k] = Newline
    THEN <<Quote>>
         \o [k \in 1 .. 2 * Len(name) |->
                IF k % 2 = 1 /\ name[(k + 1) \div 2] # Quote THEN "skip"
                ELSE name[(k + 1) \div 2]]
         \o <<Quote>>
    ELSE name

\* C16: the name field of the row format_device_row returns is the name in
\* double quotes with its double quotes doubled when the name holds a comma,
\* a double quote or a newline, and the bare name otherwise; the row read
\* back with regard to the quoting has 11 fields, the second the name.
C16_NameRoundTrips ==
    cPc = "formatted" =>
        /\ SubSeq(cResult, 3, Len(cResult) - 18)
                = SelectSeq(QuotedName(cArgs.name), LAMBDA c : c # "skip")
        /\ Len(split_quoted(cResult, 1, FALSE, <<>>, <<>>)) = 11
        /\ split_quoted(cResult, 1, FALSE, <<>>, <<>>)[2] = cArgs.name

\* A name with a comma, a double quote and a newline went into a row.
C16_Witness ==
    /\ cPc = "formatted"
    /\ cArgs.name = <<Comma, Quote, Newline>>
    /\ split_quoted(cResult, 1, FALSE, <<>>, <<>>)[2] = <<Comma, Quote, Newline>>


(***************************************************************************)
(* The WiGLE converter: the Capture Extractor.  A devices row is           *)
(* [devmac, phyname, device, first_time, avg_lat, avg_lon], a packets row  *)
(* [sourcemac, lat, lon, signal].  A column value is NULL or a number; the *)
(* device JSON is kept as what _parse_*_device reads in it: the name, the  *)
(* last signal and, for WiFi, the auth mode and the channel.  A coordinate *)
(* is a whole number of tenths of a millionth of a degree.                 *)
(***************************************************************************)
MaxExportDevices == 2

Null == [null |-> TRUE, v |-> 0]
Num(v) == [null |-> FALSE, v |-> v]

\* x != 0 and x = 0 in a WHERE clause: not true of NULL
sql_nonzero(x) == ~x.null /\ x.v # 0
sql_zero(x) == ~x.null /\ x.v = 0

\* devmac.upper() if devmac else ""
upper_mac(devmac) == IF devmac = "m2" THEN "M2" ELSE devmac

\* datetime.fromtimestamp(first_time)
fromtimestamp(first_time) == first_time * TicksPerSecond

\* The devices of a PHY with a latitude in the devices table.
select_with_lat(db, phyname) ==
    SelectSeq(db.devices, LAMBDA d : d.phyname = phyname /\ sql_nonzero(d.avg_lat))

\* Lines 170-181, 342-353 and 239-250: the devices of a PHY with a position
\* in the devices table.
select_with_gps(db, phyname) ==
    SelectSeq(db.devices, LAMBDA d :
        d.phyname = phyname /\ sql_nonzero(d.avg_lat) /\ sql_nonzero(d.avg_lon))

\* One DeviceRecord of lines 193-204, 257-268, 360-371.
record_from_avg(d, auth_mode, channel, device_type) ==
    DeviceRecord(upper_mac(d.devmac), d.device.name, auth_mode,
                 fromtimestamp(d.first_time), channel, d.device.rssi,
                 d.avg_lat.v, d.avg_lon.v, device_type, d.phyname)

\* if avg_lat == 0 or avg_lon == 0: continue
skip_no_gps(d) == d.avg_lat.v = 0 \/ d.avg_lon.v = 0

extract_wifi_devices(db) ==
    LET rows == SelectSeq(select_with_gps(db, "IEEE802.11"), LAMBDA d : ~skip_no_gps(d))
    IN  [k \in DOMAIN rows |-> record_from_avg(rows[k], rows[k].device.auth_mode,
                                          rows[k].device.channel, "WIFI")]

extract_bt_devices(db) ==
    LET rows == select_with_gps(db, "Bluetooth")
    IN  [k \in DOMAIN rows |-> record_from_avg(rows[k], "BT", 0, "BT")]

\* The packets rows joined to a device that the second BTLE query keeps.
joined_packets(db, d) ==
    SelectSeq(db.packets, LAMBDA p :
        p.sourcemac = d.devmac /\ sql_nonzero(p.lat) /\ sql_nonzero(p.lon))

\* Lines 272-287: the BTLE devices with no latitude in the devices table and
\* a packet with a position.
select_packet_gps(db) ==
    SelectSeq(db.devices, LAMBDA d :
        /\ d.phyname = "BTLE"
        /\ (sql_zero(d.avg_lat) \/ d.avg_lat.null)
        /\ joined_packets(db, d) # <<>>)

\* GROUP BY d.devmac with bare p.lat, p.lon, p.signal: the values of one row
\* of the group, which one being left to SQLite.
group_row(packets, pick) == IF pick = "first" THEN packets[1] ELSE packets[Len(packets)]

\* if signal and signal != 0: rssi = signal
packet_rssi(d, p) == IF sql_nonzero(p.signal) THEN p.signal.v ELSE d.device.rssi

\* One DeviceRecord of lines 301-312.
record_from_packet(d, p) ==
    DeviceRecord(upper_mac(d.devmac), d.device.name, "BLE",
                 fromtimestamp(d.first_time), 0, packet_rssi(d, p),
                 p.lat.v, p.lon.v, "BLE", "BTLE")

\* Lines 289-314: the rows of the second query whose address is not in yet.
RECURSIVE add_packet_devices(_, _, _, _, _)
add_packet_devices(db, rows, i, devices, pick) ==
    IF i > Len(rows) THEN devices
    ELSE IF \E k \in DOMAIN devices : devices[k].mac = upper_mac(rows[i].devmac)
         THEN add_packet_devices(db, rows, i + 1, devices, pick)
    ELSE add_packet_devices(db, rows, i + 1,
            Append(devices,
                   record_from_packet(rows[i], group_row(joined_packets(db, rows[i]), pick))),
            pick)

\* A BTLE extraction that stops after its first query.
extract_btle_devices_avg_only(db, pick) ==
    LET rows == select_with_gps(db, "BTLE")
    IN  [k \in DOMAIN rows |-> record_from_avg(rows[k], "BLE", 0, "BLE")]

extract_btle_devices(db, pick) ==
    add_packet_devices(db, select_packet_gps(db), 1,
                       extract_btle_devices_avg_only(db, pick), pick)


(***************************************************************************)
(* The WiGLE converter: export_to_wigle over one capture database.         *)
(***************************************************************************)
\* min_lat <= lat <= max_lat and min_lon <= lon <= max_lon, for some zone
is_in_exclusion_zone(lat, lon, zones) ==
    \E k \in DOMAIN zones :
        /\ zones[k][1] <= lat /\ lat <= zones[k][3]
        /\ zones[k][2] <= lon /\ lon <= zones[k][4]

\* The (pattern, match_type) entries of [dynamic_exclusions], line.split("|", 2).
load_ssid_exclusions(rf) == load_sections(rf, 1, "", SECTION_DYNAMIC, 2, <<>>)

matches_ssid_exclusion(name, exclusions) ==
    \E k \in DOMAIN exclusions :
        \/ exclusions[k].match_type = "exact" /\ name = exclusions[k].value
        \/ exclusions[k].match_type = "pattern" /\ fnmatch(name, exclusions[k].value)

\* format_wigle_header(), as one word
WigleHeader == <<"WigleWifi-1.4 header">>

ExportConfig(input_exists, include_wifi, rate_limit, exclusion_zones, apply_ssid_exclusions, output_file) ==
    [input_exists |-> input_exists, include_wifi |-> include_wifi,
     include_btle |-> TRUE, include_bt |-> TRUE, rate_limit |-> rate_limit,
     exclusion_zones |-> exclusion_zones,
     apply_ssid_exclusions |-> apply_ssid_exclusions, output_file |-> output_file]

\* ExportResult, with what each extractor returned and the lines written.
ExportResult(success, wifi, btle, bt, devices, written) ==
    [success |-> success, wifi |-> wifi, btle |-> btle, bt |-> bt,
     devices |-> devices, written |-> written]

\* Lines 811-819
without_excluded_zones(all_devices, zones) ==
    IF zones # <<>>
    THEN SelectSeq(all_devices,
                   LAMBDA d : ~is_in_exclusion_zone(d.latitude, d.longitude, zones))
    ELSE all_devices

\* Lines 821-827
without_excluded_ssids(all_devices, apply, exclusions) ==
    IF apply /\ exclusions # <<>>
    THEN SelectSeq(all_devices, LAMBDA d : ~matches_ssid_exclusion(d.name, exclusions))
    ELSE all_devices

\* Lines 829-833
rate_limited(all_devices, rate_limit) ==
    IF rate_limit THEN apply_rate_limiting(all_devices) ELSE all_devices

\* Lines 842-853: the header and one line for each device.
write_output(all_devices) ==
    <<WigleHeader>> \o [k \in DOMAIN all_devices |-> format_device_row(all_devices[k])]

\* Lines 835-853
export_store(wifi, btle, bt, all_devices, output_file, env) ==
    IF ~output_file THEN ExportResult(TRUE, wifi, btle, bt, all_devices, <<>>)
    ELSE IF env = "err_write" THEN ExportResult(FALSE, wifi, btle, bt, all_devices, <<>>)
    ELSE ExportResult(TRUE, wifi, btle, bt, all_devices, write_output(all_devices))

\* Lines 809-833
export_filter(wifi, btle, bt, config, rf, env) ==
    export_store(wifi, btle, bt,
        rate_limited(
            without_excluded_ssids(
                without_excluded_zones(wifi \o btle \o bt, config.exclusion_zones),
                config.apply_ssid_exclusions, load_ssid_exclusions(rf)),
            config.rate_limit),
        config.output_file, env)

export_to_wigle(db, config, rf, env, pick) ==
    IF ~config.input_exists THEN ExportResult(FALSE, <<>>, <<>>, <<>>, <<>>, <<>>)
    ELSE export_filter(IF config.include_wifi THEN extract_wifi_devices(db) ELSE <<>>,
                       IF config.include_btle THEN extract_btle_devices(db, pick) ELSE <<>>,
                       IF config.include_bt THEN extract_bt_devices(db) ELSE <<>>,
                       config, rf, env)

\* The devices rows of a capture: row i has its own address and name, any of
\* the three PHYs, and a position that is zero, NULL, ordinary, below half a
\* millionth of a degree in latitude, or zero in longitude only.
ExportMacs == <<"M1", "m2", "M3">>
ExportNames == <<NameA, <<"b", Comma>>, <<>>>>
ExportPositions == {<<Num(0), Num(0)>>, <<Null, Null>>, <<Num(200), Num(300)>>,
                    <<Num(1), Num(200)>>, <<Num(200), Num(0)>>}
ExportPhys == {"IEEE802.11", "BTLE", "Bluetooth"}

ExportDeviceRows(i) ==
    {[devmac |-> ExportMacs[i], phyname |-> phy,
      device |-> [name |-> ExportNames[i], rssi |-> -70, auth_mode |-> "WPA2", channel |-> 6],
      first_time |-> 1, avg_lat |-> pos[1], avg_lon |-> pos[2]]
        : phy \in ExportPhys, pos \in ExportPositions}

RECURSIVE ExportDeviceTables(_)
ExportDeviceTables(n) ==
    IF n = 0 THEN {<<>>}
    ELSE {Append(t, r) : t \in ExportDeviceTables(n - 1), r \in ExportDeviceRows(n)}

Packet(mac, lat, lon, signal) == [sourcemac |-> mac, lat |-> lat, lon |-> lon, signal |-> signal]

ExportPacketTables ==
    {<<>>,
     <<Packet("M1", Num(400), Num(500), Num(-60))>>,
     <<Packet("M1", Num(0), Num(500), Null)>>,
     <<Packet("M1", Num(400), Num(500), Num(0)), Packet("M1", Num(410), Num(510), Num(-50))>>,
     <<Packet("m2", Num(400), Num(500), Num(-60))>>,
     <<Packet("M1", Num(400), Num(500), Num(-60)), Packet("M1", Num(410), Num(510), Num(-50))>>}

ExportDatabases ==
    {[devices |-> t, packets |-> p] :
        t \in UNION {ExportDeviceTables(n) : n \in 0..MaxExportDevices},
        p \in ExportPacketTables}

ExportZone == <<100, 100, 250, 350>>
DefaultConfig == ExportConfig(TRUE, TRUE, TRUE, <<>>, FALSE, TRUE)

\* The configurations of a run, each with the outcome of opening the output.
ExportRuns ==
    {<<DefaultConfig, "ok">>, <<DefaultConfig, "err_write">>,
     <<ExportConfig(FALSE, TRUE, TRUE, <<>>, FALSE, TRUE), "ok">>,
     <<ExportConfig(TRUE, FALSE, TRUE, <<>>, FALSE, TRUE), "ok">>,
     <<ExportConfig(TRUE, TRUE, FALSE, <<>>, FALSE, TRUE), "ok">>,
     <<ExportConfig(TRUE, TRUE, TRUE, <<ExportZone>>, FALSE, TRUE), "ok">>,
     <<ExportConfig(TRUE, TRUE, TRUE, <<>>, TRUE, TRUE), "ok">>,
     <<ExportConfig(TRUE, TRUE, TRUE, <<>>, FALSE, FALSE), "ok">>}

ExportRuleFile == << <<SECTION_DYNAMIC>>, NameA \o <<"|", "exact", "|">> >>

InitExport ==
    /\ MatchIdle
    /\ ProcIdle
    /\ SysIdle
    /\ cArgs \in {[db |-> db, config |-> run[1], env |-> run[2]] :
                    db \in ExportDatabases, run \in ExportRuns}
    /\ cResult = <<>>
    /\ cPc = "export"

\* export_to_wigle(config)
ExportCall ==
    /\ cPc = "export"
    /\ \E pick \in {"first", "last"} :
        cResult' = export_to_wigle(cArgs.db, cArgs.config, ExportRuleFile, cArgs.env, pick)
    /\ cPc' = "exported"
    /\ UNCHANGED <<cArgs, matchVars, procVars, sysVars>>

NextExport == ExportCall

SpecExport == InitExport /\ [][NextExport]_vars


\* The fields of a written line, read with regard to the quoting.
row_fields(row) == split_quoted(row, 1, FALSE, <<>>, <<>>)

\* The records the extractors returned and the records of the result.
ExportRecords ==
    SeqToSet(cResult.wifi) \cup SeqToSet(cResult.btle) \cup SeqToSet(cResult.bt)
    \cup SeqToSet(cResult.devices)

\* The data rows written: the lines after the header.
DataRows == IF cResult.written = <<>> THEN <<>> ELSE Tail(cResult.written)

Magnitude(x) == IF x < 0 THEN -x ELSE x

\* C12: every record the three extractors return and every record of the
\* result of export_to_wigle has a latitude and a longitude that are not
\* zero; a data row carries the coordinates to six decimals, so that its
\* latitude and longitude fields are not zero whenever the record's are at
\* least a millionth of a degree in magnitude.
C12_RecordsHavePositionRowsToSixDecimals ==
    cPc = "exported" =>
        /\ \A d \in ExportRecords : d.latitude # 0 /\ d.longitude # 0
        /\ Len(DataRows) = Len(cResult.devices) \/ cResult.written = <<>>
        /\ \A k \in DOMAIN DataRows :
            /\ Len(row_fields(DataRows[k])) = 11
            /\ Magnitude(cResult.devices[k].latitude) >= 10
                    => row_fields(DataRows[k])[7] # <<"0">>
            /\ Magnitude(cResult.devices[k].longitude) >= 10
                    => row_fields(DataRows[k])[8] # <<"0">>

\* Two data rows were written, one for a record under half a millionth of a
\* degree of latitude and one for a record with an ordinary position.
C12_Witness ==
    /\ cPc = "exported"
    /\ Len(DataRows) = 2
    /\ \E j, k \in DOMAIN DataRows :
        /\ cResult.devices[j].latitude = 1
        /\ row_fields(DataRows[j])[7] = <<"0">>
        /\ cResult.devices[k].latitude = 200
        /\ row_fields(DataRows[k])[7] = <<"20">>

\* C12 as stated: every record and every data row written has a latitude and
\* a longitude that are not zero.
C12_RecordsAndRowsHavePosition ==
    cPc = "exported" =>
        /\ \A d \in ExportRecords : d.latitude # 0 /\ d.longitude # 0
        /\ \A k \in DOMAIN DataRows :
            /\ row_fields(DataRows[k])[7] # <<"0">>
            /\ row_fields(DataRows[k])[8] # <<"0">>


\* The extractor result of a PHY.
ExtractedFor(phyname) ==
    CASE phyname = "IEEE802.11" -> cResult.wifi
      [] phyname = "BTLE" -> cResult.btle
      [] OTHER -> cResult.bt

\* C13: a WiFi, BLE or classic Bluetooth device whose position in the devices
\* table is zero and that has a packets row, joined on the address, with a
\* latitude and a longitude that are not zero, is in what the extractor of
\* its PHY returns, with the position of such a packets row.
C13_PacketPositionFallback ==
    (cPc = "exported" /\ cArgs.config.input_exists) =>
        \A k \in DOMAIN cArgs.db.devices :
            LET d == cArgs.db.devices[k]
            IN  (/\ sql_zero(d.avg_lat) /\ sql_zero(d.avg_lon)
                 /\ joined_packets(cArgs.db, d) # <<>>
                 /\ (d.phyname = "IEEE802.11" => cArgs.config.include_wifi))
                => \E r \in SeqToSet(ExtractedFor(d.phyname)) :
                    /\ r.mac = upper_mac(d.devmac)
                    /\ \E p \in SeqToSet(joined_packets(cArgs.db, d)) :
                        r.latitude = p.lat.v /\ r.longitude = p.lon.v


(***************************************************************************)
(* process_wigle_csv: the file after a mutating run.                       *)
(***************************************************************************)
\* The name field of a data row as the run reads it.
NameRead(row) == readlines(<<row>>)[1][WIGLE_SSID_COL + 1]

\* The data rows of a file whose name field matches no rule.
UnmatchedRows(content, rules) ==
    SelectSeq(SubSeq(content, 3, Len(content)),
              LAMBDA row : ~(Len(row) > WIGLE_SSID_COL
                             /\ find_matching_rule(NameRead(row), rules) # 0))

\* C17: after a mutating process_wigle_csv run that succeeds on a file with at
\* least two lines, the file is its original first two lines verbatim and
\* then the original data rows whose name field matches no rule, in their
\* order, and removed_count is the number of rows dropped.
C17_FileIsHeaderPlusUnmatchedRows ==
    (/\ pPc \in {"mutated", "both"}
     /\ pFile0.kind = "csv" /\ pFile0.exists
     /\ Len(pFile0.content) >= 2
     /\ pRun.result.success)
    => /\ pFile.content = SubSeq(pFile0.content, 1, 2) \o UnmatchedRows(pFile0.content, pRules)
       /\ pRun.result.removed_count
            = Len(pFile0.content) - 2 - Len(UnmatchedRows(pFile0.content, pRules))

\* The same of the file read as text.
C17_TextIsHeaderPlusUnmatchedRows ==
    (/\ pPc \in {"mutated", "both"}
     /\ pFile0.kind = "csv" /\ pFile0.exists
     /\ Len(pFile0.content) >= 2
     /\ pRun.result.success)
    => /\ readlines(pFile.content)
            = readlines(SubSeq(pFile0.content, 1, 2) \o UnmatchedRows(pFile0.content, pRules))
       /\ pRun.result.removed_count
            = Len(pFile0.content) - 2 - Len(UnmatchedRows(pFile0.content, pRules))


(***************************************************************************)
(* process_kismetdb: the packets of the devices removed.                   *)
(***************************************************************************)
\* The devices rows of the database before the run that are gone after it.
RemovedDevices ==
    {d \in SeqToSet(pFile0.content.devices) : d \notin SeqToSet(pFile.content.devices)}

MutatedDatabase ==
    /\ pPc \in {"mutated", "both"}
    /\ pFile0.kind = "kismet" /\ pFile0.exists
    /\ ~pRun.raised

\* C18: after a mutating process_kismetdb run that succeeds, no packets row
\* has the address of a removed device as its source or its destination; and
\* on a database without a datasources table the run succeeds all the same.
C18_NoPacketOfRemovedDeviceRemains ==
    MutatedDatabase =>
        /\ pRun.result.success =>
            \A d \in RemovedDevices : \A k \in DOMAIN pFile.content.packets :
                /\ pFile.content.packets[k].sourcemac # d.devmac
                /\ pFile.content.packets[k].destmac # d.devmac
        /\ (~pFile0.content.hasDatasources /\ pEnv = "ok") =>
            /\ pRun.result.success
            /\ Cardinality(RemovedDevices) = pRun.result.removed_count

\* Two devices were removed from a database without a datasources table, one
\* the source and one the destination of a packet.
C18_Witness ==
    /\ MutatedDatabase
    /\ pRun.result.success
    /\ ~pFile0.content.hasDatasources
    /\ {d.devmac : d \in RemovedDevices} = {Mac(1), Mac(2)}
    /\ \E k \in DOMAIN pFile0.content.packets : pFile0.content.packets[k].sourcemac = Mac(1)
    /\ \E k \in DOMAIN pFile0.content.packets : pFile0.content.packets[k].destmac = Mac(2)
    /\ Len(pFile.content.packets) = 1


(***************************************************************************)
(* The interactive workflow over a logs directory with a subdirectory:     *)
(* two captures of one base name, found by the walk of the tree.           *)
(***************************************************************************)
BackupPaths == {KPath, SubKPath}

\* What a capture holds: both devices, one of the two, or none.
BackupContents ==
    {FreshDb, [FreshDb EXCEPT !.devices = <<DevS>>], [FreshDb EXCEPT !.devices = <<DevA>>],
     [FreshDb EXCEPT !.devices = <<>>]}

InitBackup ==
    /\ MatchIdle
    /\ ProcIdle
    /\ CallIdle
    /\ ruleFile = InitialRuleFile
    /\ files \in [BackupPaths -> {[content |-> c, age |-> InUseWindow] : c \in BackupContents}]
    /\ backups = {}
    /\ iu = IuIdle
    /\ file_mtimes = {}
    /\ last = {}
    /\ kismetConf = <<>>

NextBackup ==
    \/ \E arg \in BackupPaths \cup {LogsDir} : IUStart(arg)
    \/ \E ans \in ConfirmInputs : IUAnswer(ans)
    \/ \E ans \in DispositionInputs : IUDisposition(ans)
    \/ \E p \in BackupPaths : KismetWrite(p)
    \/ Tick

SpecBackup == InitBackup /\ [][NextBackup]_vars

\* C19: when the interactive workflow has made its backup and processed the
\* files, the backup directory of the run holds, for every file the run
\* changed, a copy with the content the file had before the run changed it.
C19_BackupHoldsEveryModifiedFile ==
    [][(iu.pc = "prompt" /\ iu'.pc = "disposition") =>
        \A p \in DOMAIN files :
            files'[p].content # files[p].content
                => \E b \in backups' :
                    /\ b.dir = iu'.backup_path
                    /\ b.name = basename(p)
                    /\ b.content = files[p].content]_<<iu, files, backups>>


(***************************************************************************)
(* The rule manager: add_static and add_dynamic, one call after another.   *)
(* The two Kismet configs get the same lines appended and are read one     *)
(* after the other with one set of seen addresses, so they are kept as one *)
(* list of lines.                                                          *)
(***************************************************************************)
MaxAdds == 2

static_section_map(phy) ==
    CASE phy = "wifi" -> SECTION_STATIC
      [] phy = "btle" -> SECTION_BTLE_STATIC
      [] OTHER -> SECTION_BT_STATIC

PHY_KISMET_NAMES(phy) ==
    CASE phy = "wifi" -> "IEEE802.11" [] phy = "btle" -> "BTLE" [] OTHER -> "Bluetooth"

\* "# WARPIE_FILTER (phy): ssid" with what follows it on the line
CommentLine(phy, ssid) == [kind |-> "comment", phy_name |-> PHY_KISMET_NAMES(phy), mac |-> ssid]

\* "kis_log_device_filter=PHY,MAC,block"
FilterLine(phy_name, mac) == [kind |-> "filter", phy_name |-> phy_name, mac |-> mac]

\* The marker and the filter line of each address.
RECURSIVE mac_filter_lines(_, _, _, _)
mac_filter_lines(macs, i, phy, ssid) ==
    IF i > Len(macs) THEN <<>>
    ELSE (IF strip(macs[i]) # <<>>
          THEN <<CommentLine(phy, ssid),
                 FilterLine(PHY_KISMET_NAMES(phy), str_upper(strip(macs[i])))>>
          ELSE <<>>)
         \o mac_filter_lines(macs, i + 1, phy, ssid)

\* The Kismet config after apply_static_filter.
apply_static_filter(kc, ssid, match_type, macs, phy) ==
    IF match_type = "bssid"
    THEN kc \o <<CommentLine(phy, ssid), FilterLine(PHY_KISMET_NAMES(phy), str_upper(ssid))>>
    ELSE IF macs # <<>> THEN kc \o mac_filter_lines(macs, 1, phy, ssid)
    ELSE Append(kc, CommentLine(phy, ssid))

\* Lines 289-378 of load_config: the block filters of a PHY in the Kismet
\* config whose address is not seen yet come in as bssid entries.
RECURSIVE legacy_entries(_, _, _, _, _)
legacy_entries(kc, i, phy_name, seen, entries) ==
    IF i > Len(kc) THEN entries
    ELSE IF kc[i].kind = "filter" /\ kc[i].phy_name = phy_name
            /\ str_upper(kc[i].mac) \notin seen
         THEN legacy_entries(kc, i + 1, phy_name, seen \cup {str_upper(kc[i].mac)},
                             Append(entries, FilterRule(kc[i].mac, "bssid", <<"Legacy">>)))
    ELSE legacy_entries(kc, i + 1, phy_name, seen, entries)

seen_macs(entries) ==
    {str_upper(entries[k].value) : k \in {j \in DOMAIN entries : entries[j].match_type = "bssid"}}

\* The static list of a PHY with the entries read so far from the rule file.
with_legacy(entries, kc, phy) ==
    entries \o legacy_entries(kc, 1, PHY_KISMET_NAMES(phy), seen_macs(entries), <<>>)

\* config.static_exclusions, config.btle_static_exclusions, config.bt_static_exclusions
load_static(rf, kc, phy) == with_legacy(load_config(rf, static_section_map(phy)), kc, phy)

\* for entry in entries: if entry.value.upper() == value_upper
check_duplicate(entries, value) ==
    \E k \in DOMAIN entries : str_upper(entries[k].value) = str_upper(value)

check_duplicate_static(rf, kc, value, phy) == check_duplicate(load_static(rf, kc, phy), value)

\* Lines 686-695: the addresses of bssids that are not in yet, added one by one.
RECURSIVE add_macs(_, _, _, _, _, _, _)
add_macs(rf, kc, bssids, i, description, phy, added) ==
    IF i > Len(bssids) THEN [rf |-> rf, added |-> added]
    ELSE IF strip(bssids[i]) # <<>> /\ ~check_duplicate_static(rf, kc, strip(bssids[i]), phy)
         THEN add_macs(add_to_section(rf, static_section_map(phy),
                           strip(bssids[i]) \o <<"|", "bssid", "|">> \o description \o <<" MAC">>),
                       kc, bssids, i + 1, description, phy, Append(added, strip(bssids[i])))
    ELSE add_macs(rf, kc, bssids, i + 1, description, phy, added)

\* Lines 697-702, st being what the loop over bssids left.
static_applied(st, kc, ssid, match_type, phy) ==
    [rf |-> st.rf, kc |-> apply_static_filter(kc, ssid, match_type, st.added, phy),
     outcome |-> "added"]

\* What a call that json_error ends leaves.
Rejected(rf, kc, error) == [rf |-> rf, kc |-> kc, outcome |-> error]

add_static(rf, kc, ssid, match_type, description, bssids, phy) ==
    IF ssid = <<>> THEN Rejected(rf, kc, "name required")
    ELSE IF match_type \notin {"exact", "pattern", "bssid"} THEN Rejected(rf, kc, "bad type")
    ELSE IF phy \notin VALID_PHY_TYPES THEN Rejected(rf, kc, "bad phy")
    ELSE IF check_duplicate_static(rf, kc, ssid, phy) THEN Rejected(rf, kc, "already exists")
    ELSE static_applied(
            add_macs(add_to_section(rf, static_section_map(phy),
                                    ssid \o <<"|", match_type, "|">> \o description),
                     kc, bssids, 1, description, phy, <<>>),
            kc, ssid, match_type, phy)

\* add_dynamic with what it reports.
add_dynamic_reported(rf, kc, ssid, match_type, description, phy) ==
    IF ssid = <<>> THEN Rejected(rf, kc, "name required")
    ELSE IF match_type \notin {"exact", "pattern"} THEN Rejected(rf, kc, "bad type")
    ELSE IF phy \notin VALID_PHY_TYPES THEN Rejected(rf, kc, "bad phy")
    ELSE IF check_duplicate_dynamic(rf, ssid, phy) THEN Rejected(rf, kc, "already exists")
    ELSE [rf |-> add_dynamic(rf, ssid, match_type, description, phy), kc |-> kc,
          outcome |-> "added"]

\* The rule file the installer leaves, and one with a static WiFi entry.
EmptyRuleFile ==
    << <<SECTION_STATIC>>, <<SECTION_DYNAMIC>>, <<SECTION_BTLE_STATIC>>,
       <<SECTION_BTLE_DYNAMIC>>, <<SECTION_BT_STATIC>>, <<SECTION_BT_DYNAMIC>> >>

AddRuleFiles ==
    {EmptyRuleFile, add_to_section(EmptyRuleFile, SECTION_STATIC, NameA \o <<"|", "exact", "|">>)}

\* The Kismet config: nothing, or a filter the installer wrote.
AddKismetConfs == {<<>>, <<FilterLine("IEEE802.11", <<"L">>)>>}

\* The values handed to an add: a name in either case, a name with a '|' in
\* it, a name after a blank, the installer's address, no name.
AddValues == {NameA, <<"A">>, <<"a", "|", "x">>, <<" ", "a">>, <<"L">>, <<>>}
AddTypes == {"exact", "bssid"}
AddPhys == {"wifi", "btle", "zigbee"}
AddBssids == {<<>>, << <<"A">> >>}

InitAdd ==
    /\ MatchIdle
    /\ ProcIdle
    /\ files = <<>> /\ backups = {} /\ iu = IuIdle /\ file_mtimes = {} /\ last = {}
    /\ ruleFile \in AddRuleFiles
    /\ kismetConf \in AddKismetConfs
    /\ cArgs = [n |-> 0, class |-> "", value |-> <<>>, phy |-> ""]
    /\ cResult = [outcome |-> "", existed |-> FALSE, rf |-> <<>>, kc |-> <<>>]
    /\ cPc = "add"

\* The end of a call: r is what it left, existed whether the value was in the
\* list of its class and PHY before the call.
AddDone(r, class, value, phy, existed) ==
    /\ ruleFile' = r.rf
    /\ kismetConf' = r.kc
    /\ cResult' = [outcome |-> r.outcome, existed |-> existed, rf |-> ruleFile, kc |-> kismetConf]
    /\ cArgs' = [n |-> cArgs.n + 1, class |-> class, value |-> value, phy |-> phy]
    /\ cPc' = "added"
    /\ UNCHANGED <<files, backups, iu, file_mtimes, last, matchVars, procVars>>

\* warpie-filter-manager --add-static
AddStaticCall(ssid, match_type, bssids, phy) ==
    /\ cArgs.n < MaxAdds
    /\ AddDone(add_static(ruleFile, kismetConf, ssid, match_type, <<>>, bssids, phy),
               "static", ssid, phy,
               /\ ssid # <<>> /\ phy \in VALID_PHY_TYPES
               /\ check_duplicate_static(ruleFile, kismetConf, ssid, phy))

\* warpie-filter-manager --add-dynamic
AddDynamicCall(ssid, match_type, phy) ==
    /\ cArgs.n < MaxAdds
    /\ AddDone(add_dynamic_reported(ruleFile, kismetConf, ssid, match_type, <<>>, phy),
               "dynamic", ssid, phy,
               /\ ssid # <<>> /\ phy \in VALID_PHY_TYPES /\ match_type \in {"exact", "pattern"}
               /\ check_duplicate_dynamic(ruleFile, ssid, phy))

NextAdd ==
    \/ \E ssid \in AddValues, t \in AddTypes, bssids \in AddBssids, phy \in AddPhys :
            AddStaticCall(ssid, t, bssids, phy)
    \/ \E ssid \in AddValues, t \in AddTypes, phy \in AddPhys : AddDynamicCall(ssid, t, phy)

SpecAdd == InitAdd /\ [][NextAdd]_vars

\* No two entries of a list have values that are equal ignoring case.
NoDuplicateValues(entries) ==
    \A j, k \in DOMAIN entries :
        j < k => str_upper(entries[j].value) # str_upper(entries[k].value)

\* Every section of the loaded configuration is free of duplicates.
C20_NoSectionHoldsDuplicates ==
    \A phy \in VALID_PHY_TYPES :
        /\ NoDuplicateValues(load_static(ruleFile, kismetConf, phy))
        /\ NoDuplicateValues(load_config(ruleFile, section_map(phy)))

\* An add of a value that is in the list of its class and PHY is rejected
\* with 'already exists' and writes nothing.
C20_ExistingValueIsRejected ==
    (cPc = "added" /\ cResult.existed) =>
        /\ cResult.outcome = "already exists"
        /\ ruleFile = cResult.rf
        /\ kismetConf = cResult.kc

\* C20: from a rule file without duplicates, after any sequence of add_static
\* and add_dynamic calls no section of the loaded configuration holds two
\* entries whose values are equal ignoring case; and an add of a value that
\* is already in the list is rejected with 'already exists' and leaves the
\* rule file and the Kismet configs as they were.
C20_AddsKeepSectionsFreeOfDuplicates ==
    C20_NoSectionHoldsDuplicates /\ C20_ExistingValueIsRejected

\* ---------------------------------------------------------------------------
\* warpie-filter-manager: removing rules, and sections that are not there
\* ---------------------------------------------------------------------------

\* One character of a sed basic regular expression against one of a line:
\* '.' stands for any character; add and remove escape '*' and '/' only.
sed_char_matches(p, c) == p = "." \/ p = c

\* Whether the text begins with something the pattern matches.
sed_prefix(pattern, text) ==
    /\ Len(pattern) <= Len(text)
    /\ \A k \in DOMAIN pattern : sed_char_matches(pattern[k], text[k])

\* sed -i '/^value|/d' rules: every line of the rule file, in whatever
\* section, that begins with the value and a '|' goes.
sed_delete_rule(rf, value) ==
    SelectSeq(rf, LAMBDA line : ~sed_prefix(value \o <<"|">>, line))

\* sed -i '/kis_log_device_filter=PHY,MAC/d' with MAC = value.upper(): the
\* filter lines of the PHY whose address begins with it go. The marker lines
\* stay: '\(' and '\)' in the pattern open and close a group, so the pattern
\* for '# WARPIE_FILTER (PHY): value' matches no line with brackets in it.
sed_deletes_config_line(l, value, phy) ==
    /\ l.kind = "filter"
    /\ l.phy_name = PHY_KISMET_NAMES(phy)
    /\ sed_prefix(str_upper(value), l.mac \o <<",", "block">>)

remove_static(rf, kc, value, phy) ==
    [rf |-> sed_delete_rule(rf, value),
     kc |-> SelectSeq(kc, LAMBDA l : ~sed_deletes_config_line(l, value, phy)),
     outcome |-> "removed"]

remove_dynamic(rf, kc, value, phy) ==
    [rf |-> sed_delete_rule(rf, value), kc |-> kc, outcome |-> "removed"]

\* A rule file from before the Bluetooth sections, and one with the same
\* name in three sections.
LegacyRuleFile == << <<SECTION_STATIC>>, <<SECTION_DYNAMIC>> >>

StockedRuleFile ==
    << <<SECTION_STATIC>>, NameA \o <<"|", "exact", "|">>,
       <<SECTION_DYNAMIC>>, NameA \o <<"|", "exact", "|">>, NameB \o <<"|", "exact", "|">>,
       <<SECTION_BTLE_STATIC>>,
       <<SECTION_BTLE_DYNAMIC>>, NameA \o <<"|", "exact", "|">>,
       <<SECTION_BT_STATIC>>, <<SECTION_BT_DYNAMIC>> >>

ManageRuleFiles == {EmptyRuleFile, LegacyRuleFile, StockedRuleFile}

\* The Kismet config: nothing, a filter written in lower case, or filters of
\* two addresses.
ManageKismetConfs ==
    {<<>>, <<FilterLine("IEEE802.11", NameA)>>,
     <<FilterLine("IEEE802.11", <<"A">>), FilterLine("IEEE802.11", <<"L">>),
       FilterLine("BTLE", <<"A">>)>>}

\* Values handed to add and remove: a name or address in either case, and a
\* name with a '.' for a character.
ManageValues == {NameA, <<"A">>, <<".">>}
ManagePhys == {"wifi", "btle"}

InitManage ==
    /\ MatchIdle
    /\ ProcIdle
    /\ files = <<>> /\ backups = {} /\ iu = IuIdle /\ file_mtimes = {} /\ last = {}
    /\ ruleFile \in ManageRuleFiles
    /\ kismetConf \in ManageKismetConfs
    /\ cArgs = [n |-> 0, class |-> "", value |-> <<>>, phy |-> ""]
    /\ cResult = [outcome |-> "", existed |-> FALSE, rf |-> <<>>, kc |-> <<>>]
    /\ cPc = "add"

\* The end of a remove: r is what it left.
RemoveDone(r, class, value, phy) ==
    /\ ruleFile' = r.rf
    /\ kismetConf' = r.kc
    /\ cResult' = [outcome |-> r.outcome, existed |-> FALSE, rf |-> ruleFile, kc |-> kismetConf]
    /\ cArgs' = [n |-> cArgs.n + 1, class |-> class, value |-> value, phy |-> phy]
    /\ cPc' = "removed"
    /\ UNCHANGED <<files, backups, iu, file_mtimes, last, matchVars, procVars>>

\* warpie-filter-manager --remove-static
RemoveStaticCall(value, phy) ==
    /\ cArgs.n < MaxAdds
    /\ RemoveDone(remove_static(ruleFile, kismetConf, value, phy), "static", value, phy)

\* warpie-filter-manager --remove-dynamic
RemoveDynamicCall(value, phy) ==
    /\ cArgs.n < MaxAdds
    /\ RemoveDone(remove_dynamic(ruleFile, kismetConf, value, phy), "dynamic", value, phy)

NextManage ==
    \/ \E ssid \in ManageValues, t \in AddTypes, phy \in ManagePhys :
            AddStaticCall(ssid, t, <<>>, phy)
    \/ \E ssid \in ManageValues, t \in AddTypes, phy \in ManagePhys :
            AddDynamicCall(ssid, t, phy)
    \/ \E value \in ManageValues, phy \in ManagePhys : RemoveStaticCall(value, phy)
    \/ \E value \in ManageValues, phy \in ManagePhys : RemoveDynamicCall(value, phy)

SpecManage == InitManage /\ [][NextManage]_vars

\* The section an add of the class and PHY writes to, and whether the rule
\* file has a line that is its marker.
target_section(class, phy) ==
    IF class = "static" THEN static_section_map(phy) ELSE section_map(phy)

HasHeader(rf, section) == \E k \in DOMAIN rf : rf[k] = <<section>>

\* An add to a section whose marker is not in the rule file reports an error
\* and leaves the rule file as it was.
C21_AbsentHeaderFailsLoudly ==
    (cPc = "added" /\ ~HasHeader(cResult.rf, target_section(cArgs.class, cArgs.phy))) =>
        /\ cResult.outcome # "added"
        /\ ruleFile = cResult.rf

\* An add that reports success to a section whose marker is in the rule file
\* puts one line, which begins with the value, right after the marker and
\* leaves every other line as it was.
C21_PresentHeaderInsertsAfterIt ==
    (/\ cPc = "added" /\ cResult.outcome = "added"
     /\ HasHeader(cResult.rf, target_section(cArgs.class, cArgs.phy))) =>
        \E k \in DOMAIN cResult.rf :
            /\ cResult.rf[k] = <<target_section(cArgs.class, cArgs.phy)>>
            /\ Len(ruleFile) = Len(cResult.rf) + 1
            /\ ruleFile = SubSeq(cResult.rf, 1, k) \o <<ruleFile[k + 1]>>
                          \o SubSeq(cResult.rf, k + 1, Len(cResult.rf))
            /\ sed_prefix(cArgs.value \o <<"|">>, ruleFile[k + 1])

\* C21: an add_static or add_dynamic to a section whose header is absent
\* from the rule file reports an error, does not report success and leaves
\* the rule file unchanged; when the header is present the new line is
\* inserted immediately after it and every other line is unchanged.
C21_AddFailsLoudlyWithoutHeader ==
    C21_AbsentHeaderFailsLoudly /\ C21_PresentHeaderInsertsAfterIt

\* The rule file without the entries of one section whose leading field is
\* the value: what a removal confined to that section leaves.
RECURSIVE without_rule(_, _, _, _, _)
without_rule(rf, i, current, section, value) ==
    IF i > Len(rf) THEN <<>>
    ELSE IF is_bracketed(strip(rf[i]))
         THEN <<rf[i]>> \o without_rule(rf, i + 1, strip(rf[i])[1], section, value)
    ELSE IF /\ current = section
            /\ ~is_blank_or_comment(strip(rf[i]))
            /\ Len(split(strip(rf[i]), "|", 2)) >= 2
            /\ split(strip(rf[i]), "|", 2)[1] = value
         THEN without_rule(rf, i + 1, current, section, value)
    ELSE <<rf[i]>> \o without_rule(rf, i + 1, current, section, value)

\* remove_dynamic leaves the Kismet configs as they were.
C22_KismetConfigsUnchanged ==
    (cPc = "removed" /\ cArgs.class = "dynamic") => kismetConf = cResult.kc

\* C22: remove_dynamic(value, phy) deletes exactly the lines of the dynamic
\* section of the PHY whose leading field equals value; every other line of
\* the rule file, those of the static sections and of other sections with
\* the same or a similar leading field included, is unchanged, and so are
\* the Kismet configs.
C22_RemoveDynamicDeletesOnlyItsRule ==
    (cPc = "removed" /\ cArgs.class = "dynamic") =>
        /\ ruleFile = without_rule(cResult.rf, 1, "", section_map(cArgs.phy), cArgs.value)
        /\ kismetConf = cResult.kc

\* The values of the removals that are hardware addresses.
AddressValues == {NameA, <<"A">>}

\* Whether a line of the Kismet config is a block directive for the address
\* and the PHY, addresses compared ignoring case.
blocks_address(l, value, phy) ==
    /\ l.kind = "filter"
    /\ l.phy_name = PHY_KISMET_NAMES(phy)
    /\ str_upper(l.mac) = str_upper(value)

\* remove_static of an address leaves the block directives for other
\* addresses and other PHYs where they were.
C23_OtherDirectivesStay ==
    (cPc = "removed" /\ cArgs.class = "static" /\ cArgs.value \in AddressValues) =>
        SelectSeq(kismetConf, LAMBDA l : ~blocks_address(l, cArgs.value, cArgs.phy))
            = SelectSeq(cResult.kc, LAMBDA l : ~blocks_address(l, cArgs.value, cArgs.phy))

\* C23: after remove_static(address, phy) no block directive for the address
\* (ignoring case) and the PHY remains in the Kismet configs, load_config
\* does not list the address in the static exclusions of the PHY, the
\* duplicate check for it returns false, and the block directives for other
\* addresses are still there.
C23_RemoveStaticClearsBlockDirectives ==
    (cPc = "removed" /\ cArgs.class = "static" /\ cArgs.value \in AddressValues) =>
        /\ \A k \in DOMAIN kismetConf : ~blocks_address(kismetConf[k], cArgs.value, cArgs.phy)
        /\ ~check_duplicate_static(ruleFile, kismetConf, cArgs.value, cArgs.phy)
        /\ SelectSeq(kismetConf, LAMBDA l : ~blocks_address(l, cArgs.value, cArgs.phy))
            = SelectSeq(cResult.kc, LAMBDA l : ~blocks_address(l, cArgs.value, cArgs.phy))

\* ---------------------------------------------------------------------------
\* The two decoders of a device blob: _parse_wifi_device of the Capture
\* Extractor and extract_ssids_from_device of the Filter Remover
\* ---------------------------------------------------------------------------
MaxBatch == 2

\* if advertised: a non-empty list or dict, or a number that is not 0.
advertised_truthy(blob) ==
    blob.dot11 = "map" /\ (blob.shape = "number" \/ blob.adv # <<>>)

\* next(iter(advertised.values()), {}).get("dot11.advertisedssid.ssid", "")
first_advertised_ssid(blob) == IF advertised_truthy(blob) THEN blob.adv[1].ssid ELSE <<>>

\* The AttributeError of .get or .values on a value that is no dict: JSON
\* that is not an object, a "dot11.device" that is a list, an advertised map
\* that is a list or a number, a first value of the map that is no dict, a
\* signal that is a list. The except clause does not catch it.
parse_raises(blob) ==
    \/ blob.kind = "nonobj"
    \/ /\ blob.kind = "obj"
       /\ \/ blob.dot11 = "list"
          \/ advertised_truthy(blob) /\ blob.shape # "dict"
          \/ advertised_truthy(blob) /\ ~blob.adv[1].dict
          \/ blob.signal = "list"

\* (ssid, auth_mode, channel, rssi); the blobs hold no channel and no
\* frequency, a signal map holds last_signal -50, the crypt set is 0.
_parse_wifi_device(blob) ==
    IF blob.kind \in {"absent", "badjson"}
    THEN [raised |-> FALSE, ssid |-> <<>>, auth_mode |-> "", channel |-> 0, rssi |-> -100]
    ELSE IF parse_raises(blob)
    THEN [raised |-> TRUE, ssid |-> <<>>, auth_mode |-> "", channel |-> 0, rssi |-> -100]
    ELSE [raised |-> FALSE,
          ssid |-> IF first_advertised_ssid(blob) # <<>> THEN first_advertised_ssid(blob)
                   ELSE blob.commonname,
          auth_mode |-> IF advertised_truthy(blob) THEN "OPEN" ELSE "",
          channel |-> 0,
          rssi |-> IF blob.signal = "map" THEN -50 ELSE -100]

\* for row in cursor.fetchall() of extract_wifi_devices, as far as decoding
\* goes: an exception of _parse_wifi_device leaves the function, which
\* catches sqlite3.Error only, and no row is returned.
RECURSIVE parse_wifi_rows(_, _, _)
parse_wifi_rows(blobs, i, rows) ==
    IF i > Len(blobs) THEN [raised |-> FALSE, rows |-> rows]
    ELSE IF _parse_wifi_device(blobs[i]).raised THEN [raised |-> TRUE, rows |-> <<>>]
    ELSE parse_wifi_rows(blobs, i + 1, Append(rows, _parse_wifi_device(blobs[i])))

\* for key, devmac, device_json in cursor.fetchall() of process_kismetdb, as
\* far as decoding goes.
RECURSIVE extract_ssids_rows(_, _, _)
extract_ssids_rows(blobs, i, rows) ==
    IF i > Len(blobs) THEN [raised |-> FALSE, rows |-> rows]
    ELSE IF extract_ssids_from_device(blobs[i]).raised THEN [raised |-> TRUE, rows |-> <<>>]
    ELSE extract_ssids_rows(blobs, i + 1, Append(rows, extract_ssids_from_device(blobs[i]).ssids))

DecodeAdvMaps == {<<>>, <<Entry(NameA)>>, <<NonDictEntry, Entry(NameB)>>}

\* Blobs that are absent, no JSON, no object; objects with the advertised map
\* as a list, as a dict and as a number; objects without "dot11.device" or
\* with a list for it, with and without signal and common name.
DecodeBlobs ==
    {AbsentBlob, BadJsonBlob, NonObjBlob}
    \cup {DeviceBlob("obj", "map", sh, adv, probed, "map", <<>>) :
            sh \in {"list", "dict"}, adv \in DecodeAdvMaps, probed \in {<<>>, <<Entry(NameA)>>}}
    \cup {DeviceBlob("obj", "map", "number", <<>>, <<>>, "map", <<>>)}
    \cup {DeviceBlob("obj", d, "list", <<>>, <<>>, sig, cn) :
            d \in {"missing", "list"}, sig \in {"missing", "list", "map"}, cn \in {<<>>, NameB}}

RECURSIVE DecodeBatches(_)
DecodeBatches(n) ==
    IF n = 0 THEN {<<>>}
    ELSE DecodeBatches(n - 1)
         \cup {Append(t, b) : t \in {u \in DecodeBatches(n - 1) : Len(u) = n - 1},
                              b \in DecodeBlobs}

InitDecode ==
    /\ MatchIdle
    /\ ProcIdle
    /\ SysIdle
    /\ cArgs = [blobs |-> <<>>]
    /\ cResult = [by |-> "", raised |-> FALSE, rows |-> <<>>]
    /\ cPc = "decode"

DecodeDone(by, blobs, r) ==
    /\ cPc = "decode"
    /\ cArgs' = [blobs |-> blobs]
    /\ cResult' = [by |-> by, raised |-> r.raised, rows |-> r.rows]
    /\ cPc' = "decoded"
    /\ UNCHANGED <<matchVars, procVars, sysVars>>

\* The Capture Extractor reads the devices of a capture.
ParseWifiBatch(blobs) == DecodeDone("extractor", blobs, parse_wifi_rows(blobs, 1, <<>>))

\* The Filter Remover reads the devices of a capture.
ExtractSsidsBatch(blobs) == DecodeDone("remover", blobs, extract_ssids_rows(blobs, 1, <<>>))

NextDecode ==
    \/ \E blobs \in DecodeBatches(MaxBatch) : ParseWifiBatch(blobs)
    \/ \E blobs \in DecodeBatches(MaxBatch) : ExtractSsidsBatch(blobs)

SpecDecode == InitDecode /\ [][NextDecode]_vars

\* A blob nothing can be read from.
Undecodable(blob) == blob.kind # "obj" \/ blob.dot11 # "map"

\* What a decoder returns when it has nothing: empty name, channel 0,
\* signal -100; no names.
IsDefaultRow(by, row) ==
    IF by = "extractor" THEN row.ssid = <<>> /\ row.channel = 0 /\ row.rssi = -100
    ELSE row = <<>>

\* Blobs that are absent or not valid JSON decode to the defaults.
C24_UnparsableTextGivesDefaults ==
    cPc = "decoded" =>
        \A k \in DOMAIN cArgs.blobs :
            (cArgs.blobs[k].kind \in {"absent", "badjson"} /\ ~cResult.raised)
                => IsDefaultRow(cResult.by, cResult.rows[k])

\* C24: whatever the blobs of the device rows are (absent, not valid JSON,
\* JSON that is not an object, an object with nested fields missing or of
\* an unexpected type), neither decoder raises, every row is decoded, and
\* a blob nothing can be read from gives the defaults: empty name, channel
\* 0, default signal for the extractor (a common name or a signal outside
\* "dot11.device" aside), no names for the remover.
C24_DecodersNeverRaise ==
    cPc = "decoded" =>
        /\ ~cResult.raised
        /\ Len(cResult.rows) = Len(cArgs.blobs)
        /\ \A k \in DOMAIN cArgs.blobs :
            (/\ Undecodable(cArgs.blobs[k])
             /\ cArgs.blobs[k].commonname = <<>>
             /\ cArgs.blobs[k].signal # "map")
                => IsDefaultRow(cResult.by, cResult.rows[k])

\* C26: for every WiFi device blob, the name _parse_wifi_device takes from
\* the advertised-name map is among the names extract_ssids_from_device
\* returns, so a device exported under a name that matches a dynamic rule is
\* also flagged for removal.
C26_ExtractorNameIsAmongRemoverNames ==
    cPc = "decoded" =>
        \A k \in DOMAIN cArgs.blobs :
            (/\ ~_parse_wifi_device(cArgs.blobs[k]).raised
             /\ first_advertised_ssid(cArgs.blobs[k]) # <<>>)
                => InSeq(first_advertised_ssid(cArgs.blobs[k]),
                         extract_ssids_from_device(cArgs.blobs[k]).ssids)

\* ---------------------------------------------------------------------------
\* The packet row behind a BTLE record of the fallback
\* ---------------------------------------------------------------------------
\* The BTLE devices the fallback serves that have several packets rows with
\* a position, each with a recorded signal.
FallbackDevices ==
    {k \in DOMAIN cArgs.db.devices :
        /\ cArgs.db.devices[k].phyname = "BTLE"
        /\ sql_zero(cArgs.db.devices[k].avg_lat) \/ cArgs.db.devices[k].avg_lat.null
        /\ Len(joined_packets(cArgs.db, cArgs.db.devices[k])) >= 2
        /\ \A p \in SeqToSet(joined_packets(cArgs.db, cArgs.db.devices[k])) :
                sql_nonzero(p.signal)}

\* Whether p is a row of the strongest signal among the packets.
IsStrongest(p, packets) == \A q \in SeqToSet(packets) : q.signal.v <= p.signal.v

\* The records of the BTLE extractor for the address of a devices row.
BtleRecordsFor(d) ==
    {j \in DOMAIN cResult.btle : cResult.btle[j].mac = upper_mac(d.devmac)}

\* Exactly one record is returned for a device the fallback serves.
C25_OneRecordPerAddress ==
    (cPc = "exported" /\ cArgs.config.input_exists) =>
        \A k \in FallbackDevices : Cardinality(BtleRecordsFor(cArgs.db.devices[k])) = 1

C25_OneRecordWitness ==
    /\ cPc = "exported" /\ cArgs.config.input_exists
    /\ FallbackDevices # {}

\* C25: when the packets table supplies the position of a BTLE device and
\* several packets rows with a position exist for its address, exactly one
\* record is returned for the address, and it has the position and the
\* signal of the packets row with the greatest signal.
C25_RecordIsOfStrongestPacket ==
    (cPc = "exported" /\ cArgs.config.input_exists) =>
        \A k \in FallbackDevices :
            /\ Cardinality(BtleRecordsFor(cArgs.db.devices[k])) = 1
            /\ \A j \in BtleRecordsFor(cArgs.db.devices[k]) :
                \E p \in SeqToSet(joined_packets(cArgs.db, cArgs.db.devices[k])) :
                    /\ IsStrongest(p, joined_packets(cArgs.db, cArgs.db.devices[k]))
                    /\ cResult.btle[j].latitude = p.lat.v
                    /\ cResult.btle[j].longitude = p.lon.v
                    /\ cResult.btle[j].rssi = p.signal.v

\* ---------------------------------------------------------------------------
\* A row of the Export Formatter under the CSV Filter Remover
\* ---------------------------------------------------------------------------
\* f.readlines() on written text: the lines, each with its "\n".
RECURSIVE text_lines(_, _, _)
text_lines(text, line, lines) ==
    IF text = <<>> THEN (IF line = <<>> THEN lines ELSE Append(lines, line))
    ELSE IF Head(text) = Newline THEN text_lines(Tail(text), <<>>, Append(lines, Append(line, Newline)))
    ELSE text_lines(Tail(text), Append(line, Head(text)), lines)

\* The file export_to_wigle writes for one device, as the ','-parts of its
\* lines: the two header lines and format_device_row(device) + "\n".
written_file(device) ==
    LET lines == text_lines(format_device_row(device) \o <<Newline>>, <<>>, <<>>)
    IN  Header \o [k \in DOMAIN lines |-> split(lines[k], Comma, -1)]

ComposeNames == TextsUpTo(FieldChars, MaxFieldLen) \ {<<>>}

\* Rule lists that hold the exact rule for the name, alone and after another.
ComposeRules(n) ==
    {<<FilterRule(n, "exact", "")>>,
     <<FilterRule(<<"z">>, "exact", ""), FilterRule(n, "exact", "")>>}

InitCompose ==
    /\ MatchIdle
    /\ ProcIdle
    /\ SysIdle
    /\ cArgs \in UNION {{[device |-> DeviceRecord("M1", n, "WPA2", 3, 6, -65, 476000000,
                                                  -1223000000, "WIFI", "IEEE802.11"),
                          rules |-> r] : r \in ComposeRules(n)} : n \in ComposeNames}
    /\ cResult = [content |-> <<>>, run |-> NoOut]
    /\ cPc = "export"

\* export_to_wigle writes the file of the device.
ComposeWrite ==
    /\ cPc = "export"
    /\ cResult' = [cResult EXCEPT !.content = written_file(cArgs.device)]
    /\ cPc' = "written"
    /\ UNCHANGED <<cArgs, matchVars, procVars, sysVars>>

\* process_wigle_csv(file, rules) on the written file.
ComposeFilter ==
    /\ cPc = "written"
    /\ cResult' = [cResult EXCEPT
            !.run = process_wigle_csv("out", TRUE, cResult.content, cArgs.rules, FALSE, "ok")]
    /\ cPc' = "filtered"
    /\ UNCHANGED <<cArgs, matchVars, procVars, sysVars>>

NextCompose == ComposeWrite \/ ComposeFilter

SpecCompose == InitCompose /\ [][NextCompose]_vars

\* Whether the text holds a comma, a double quote or a newline.
IsPlainName(n) == \A k \in DOMAIN n : n[k] \notin {Comma, Quote, Newline}

\* A row written for a name without commas, double quotes and newlines is
\* matched and removed, and the match reports the name.
C27_PlainNamesCompose ==
    (cPc = "filtered" /\ IsPlainName(cArgs.device.name)) =>
        /\ cResult.run.result.removed_count = 1
        /\ Len(cResult.run.result.matches) = 1
        /\ cResult.run.result.matches[1].ssid = cArgs.device.name
        /\ cResult.run.content = Header

C27_PlainNameWitness ==
    /\ cPc = "filtered"
    /\ cArgs.device.name = <<"a", " ", "a">>
    /\ cResult.run.result.removed_count = 1

\* C27: for every device name n, commas and double quotes included, and a
\* rule list holding the exact rule with value n, the row format_device_row
\* writes for a device named n is matched and removed by process_wigle_csv,
\* and the ssid of the match is n.
C27_WrittenRowIsRemoved ==
    cPc = "filtered" =>
        /\ cResult.run.result.removed_count >= 1
        /\ cResult.run.result.matches # <<>>
        /\ cResult.run.result.matches[1].ssid = cArgs.device.name
        /\ cResult.run.content = Header

\* ---------------------------------------------------------------------------
\* Watch mode: one capture file under Kismet and under the daemon, which
\* runs either FilterDaemon.run (polling) or run_daemon_with_inotify.  The
\* call record holds the loop that runs, the inotify events not handled yet,
\* how often Kismet wrote, and how many process_kismetdb calls the polling
\* daemon made on the file since Kismet wrote it last.
\* ---------------------------------------------------------------------------
MaxWrites == 2

\* No device of the file has a name that a dynamic rule of the file matches.
Sanitized(fs, rf, p) ==
    \A k \in DOMAIN fs[p].content.devices :
        first_matching_ssid(extract_ssids_from_device(fs[p].content.devices[k].device).ssids,
                            load_dynamic_exclusions(rf), 1) = 0

InitWatch ==
    /\ MatchIdle
    /\ ProcIdle
    /\ ruleFile = ExportRuleFile
    /\ files = [p \in {KPath, SubKPath} |-> [content |-> EmptyDb, age |-> InUseWindow]]
    /\ backups = {} /\ iu = IuIdle /\ file_mtimes = {} /\ last = {} /\ kismetConf = <<>>
    /\ cArgs \in {[mode |-> m, events |-> <<>>, writes |-> 0, polls |-> [p \in {KPath, SubKPath} |-> 0]]
                    : m \in {"poll", "inotify"}}
    /\ cResult = <<>>
    /\ cPc = "watch"

\* Kismet writes the devices it sees to its log and closes it: the mtime is
\* now, and under inotify an IN_CLOSE_WRITE event for the file is queued.
WatchWrite(p) ==
    /\ cArgs.writes < MaxWrites
    /\ files' = [files EXCEPT ![p] = [content |-> FreshDb, age |-> 0]]
    /\ file_mtimes' = file_mtimes \ {p}
    /\ last' = {}
    /\ cArgs' = [cArgs EXCEPT !.writes = @ + 1,
                              !.polls[p] = 0,
                              !.events = IF cArgs.mode = "inotify" THEN Append(@, p) ELSE @]
    /\ UNCHANGED <<ruleFile, backups, iu, kismetConf, cResult, cPc, matchVars, procVars>>

\* The effect of a turn st of the polling loop; a file counts as processed
\* by the turn when the turn recorded or changed it.
WatchPolled(st) ==
    /\ files' = st.fs
    /\ last' = st.calls
    /\ file_mtimes' = st.mt
    /\ cArgs' = [cArgs EXCEPT !.polls = [p \in DOMAIN @ |->
                    IF (p \in st.mt /\ p \notin file_mtimes) \/ st.fs[p] # files[p]
                    THEN (IF @[p] < 2 THEN @[p] + 1 ELSE 2)
                    ELSE @[p]]]
    /\ UNCHANGED <<ruleFile, backups, iu, kismetConf, cResult, cPc, matchVars, procVars>>

\* One turn of FilterDaemon.run's loop: load_rules(), process_pending_files().
WatchPoll ==
    /\ cArgs.mode = "poll"
    /\ \E st \in {process_pending_files(files, ruleFile, backups, file_mtimes)} :
            WatchPolled(st)

\* The effect of the handling st of the event on p: process_kismetdb opens
\* the database for writing, so that closing it queues an IN_CLOSE_WRITE
\* event for the file again.
WatchHandled(p, st) ==
    /\ files' = st.fs
    /\ last' = st.calls
    /\ cArgs' = [cArgs EXCEPT !.events = IF st.calls # {} THEN Append(Tail(@), p) ELSE Tail(@)]
    /\ UNCHANGED <<ruleFile, backups, iu, file_mtimes, kismetConf, cResult, cPc,
                   matchVars, procVars>>

\* run_daemon_with_inotify takes the next event: lines 1024-1047.
WatchEvent ==
    /\ cArgs.mode = "inotify"
    /\ cArgs.events # <<>>
    /\ \E st \in {inotify_event(files, ruleFile, backups, Head(cArgs.events))} :
            WatchHandled(Head(cArgs.events), st)

NextWatch ==
    \/ \E p \in {KPath, SubKPath} : WatchWrite(p)
    \/ WatchPoll
    \/ WatchEvent
    \/ Tick

SpecWatch == InitWatch /\ [][NextWatch]_vars

\* Whether a turn of the polling loop would change anything: the state
\* predicate that ENABLED <<WatchPoll>>_vars is.
PollPending ==
    /\ cArgs.mode = "poll"
    /\ \E st \in {process_pending_files(files, ruleFile, backups, file_mtimes)} :
            st.fs # files \/ st.mt # file_mtimes \/ st.calls # last

\* Whether the handling of the next event would change anything: the state
\* predicate that ENABLED <<WatchEvent>>_vars is.
EventPending ==
    /\ cArgs.mode = "inotify"
    /\ cArgs.events # <<>>
    /\ \E st \in {inotify_event(files, ruleFile, backups, Head(cArgs.events))} :
            \/ st.fs # files
            \/ st.calls # last
            \/ cArgs.events # (IF st.calls # {} THEN Append(Tail(cArgs.events), Head(cArgs.events))
                               ELSE Tail(cArgs.events))

\* The loop keeps running and time passes: weak fairness of the clock, of
\* the polling loop's turn and of the handling of an event.  For the two
\* loops WF_vars(A) is written out as []<>~ENABLED <<A>>_vars \/ []<><<A>>_vars
\* with the state predicate above for ENABLED <<A>>_vars.
SpecWatchFair ==
    /\ SpecWatch
    /\ WF_vars(Tick)
    /\ ([]<>~PollPending \/ []<><<WatchPoll>>_vars)
    /\ ([]<>~EventPending \/ []<><<WatchEvent>>_vars)

AllSanitized == \A p \in DOMAIN files : Sanitized(files, ruleFile, p)

\* C28, the polling loop alone: every file is sanitized in the end.
C28_PollingSanitizes == <>[](cArgs.mode = "poll" => AllSanitized)

\* C28: in watch mode, under the polling loop and under the inotify loop, a
\* capture file that holds a device matching a dynamic rule and is no longer
\* modified is processed and sanitized in the end, the loop running on and
\* the rule set not empty.
C28_EventuallySanitized == <>[]AllSanitized

\* C29: the polling daemon processes a file at most once between two writes
\* by anything other than the daemon: after process_pending_files processed
\* a file, also in a turn that removed entries, the later turns skip the file
\* until an external writer changes it.
C29_ProcessedOncePerExternalWrite == \A p \in DOMAIN cArgs.polls : cArgs.polls[p] <= 1

(***************************************************************************)
(* Two manager processes that add at the same time.  The web front end     *)
(* serves with two threads and starts one manager process per request; no  *)
(* lock is taken on the rule file.  An add reads the rule file for its     *)
(* duplicate check, then runs sed -i, which reads the file, writes the     *)
(* edited text to a new file and renames that over the rule file.          *)
(* cArgs[i] is the operation of process i, cPc[i] its position and         *)
(* cResult.snap[i] the text its sed read; cResult.rf0 and cResult.kc0 are  *)
(* the files before the two calls.                                         *)
(***************************************************************************)
Managers == {1, 2}
RaceValues == {NameA, <<"A">>, NameB}
RacePhys == {"wifi", "btle"}
RaceOps == {[class |-> c, value |-> v, phy |-> p] : c \in {"static", "dynamic"}, v \in RaceValues, p \in RacePhys}

\* The duplicate check of the operation: lines 676 and 739.
duplicate_check(rf, kc, op) ==
    IF op.class = "static" THEN check_duplicate_static(rf, kc, op.value, op.phy)
    ELSE check_duplicate_dynamic(rf, op.value, op.phy)

\* The section the operation adds under and the entry it adds.
op_section(op) == IF op.class = "static" THEN static_section_map(op.phy) ELSE section_map(op.phy)
op_entry(op) == op.value \o <<"|", "exact", "|">>

\* The operation run on its own, from its first line to its last.
run_alone(rf, kc, op) ==
    IF op.class = "static" THEN add_static(rf, kc, op.value, "exact", <<>>, <<>>, op.phy)
    ELSE add_dynamic_reported(rf, kc, op.value, "exact", <<>>, op.phy)

\* The rule file after first, then second, each run on its own.
in_order(rf, kc, first, second) ==
    LET r == run_alone(rf, kc, first) IN run_alone(r.rf, r.kc, second).rf

InitRace ==
    /\ MatchIdle
    /\ ProcIdle
    /\ files = <<>> /\ backups = {} /\ iu = IuIdle /\ file_mtimes = {} /\ last = {}
    /\ ruleFile \in AddRuleFiles
    /\ kismetConf = <<>>
    /\ cArgs \in [Managers -> RaceOps]
    /\ cResult = [rf0 |-> ruleFile, kc0 |-> kismetConf, snap |-> [i \in Managers |-> <<>>]]
    /\ cPc = [i \in Managers |-> "check"]

\* check_duplicate_static or check_duplicate_dynamic reads the rule file;
\* json_error ends the process when the value is there.
ManagerCheck(i) ==
    /\ cPc[i] = "check"
    /\ cPc' = [cPc EXCEPT ![i] = IF duplicate_check(ruleFile, kismetConf, cArgs[i])
                                 THEN "rejected" ELSE "sed"]
    /\ UNCHANGED <<ruleFile, kismetConf, files, backups, iu, file_mtimes, last, cArgs, cResult,
                   matchVars, procVars>>

\* add_to_section starts sed -i, which reads the rule file.
SedRead(i) ==
    /\ cPc[i] = "sed"
    /\ cResult' = [cResult EXCEPT !.snap[i] = ruleFile]
    /\ cPc' = [cPc EXCEPT ![i] = "rename"]
    /\ UNCHANGED <<ruleFile, kismetConf, files, backups, iu, file_mtimes, last, cArgs,
                   matchVars, procVars>>

\* sed -i renames its output over the rule file.
SedRename(i) ==
    /\ cPc[i] = "rename"
    /\ ruleFile' = add_to_section(cResult.snap[i], op_section(cArgs[i]), op_entry(cArgs[i]))
    /\ cPc' = [cPc EXCEPT ![i] = IF cArgs[i].class = "static" THEN "apply" ELSE "added"]
    /\ UNCHANGED <<kismetConf, files, backups, iu, file_mtimes, last, cArgs, cResult,
                   matchVars, procVars>>

\* add_static goes on to apply_static_filter and reports success.
ApplyStatic(i) ==
    /\ cPc[i] = "apply"
    /\ kismetConf' = apply_static_filter(kismetConf, cArgs[i].value, "exact", <<>>, cArgs[i].phy)
    /\ cPc' = [cPc EXCEPT ![i] = "added"]
    /\ UNCHANGED <<ruleFile, files, backups, iu, file_mtimes, last, cArgs, cResult,
                   matchVars, procVars>>

NextRace ==
    \/ \E i \in Managers : ManagerCheck(i)
    \/ \E i \in Managers : SedRead(i)
    \/ \E i \in Managers : SedRename(i)
    \/ \E i \in Managers : ApplyStatic(i)

SpecRace == InitRace /\ [][NextRace]_vars

BothEnded == \A i \in Managers : cPc[i] \in {"added", "rejected"}

\* C30: for every interleaving of two adds by two manager processes the
\* rule file in the end is the rule file that the two operations leave when
\* run one after the other in one of the two orders: no entry reported as
\* added is lost and no duplicate, case ignored, is made.
C30_AddsAreLinearizable ==
    BothEnded => ruleFile \in {in_order(cResult.rf0, cResult.kc0, cArgs[1], cArgs[2]),
                               in_order(cResult.rf0, cResult.kc0, cArgs[2], cArgs[1])}

=============================================================================
